---- MODULE Spec2Model ----
(***************************************************************************)
(* Model of the dtz-toolkit front end.                                     *)
(*                                                                         *)
(*  - AnalyticsTracker (analytics module): one tracker on one page, its    *)
(*    timers, its asynchronous operations and the Realtime Database paths  *)
(*    it writes.  An asynchronous method is a record in `ops`: it has      *)
(*    issued the write of its current step and awaits it; WriteSucceeds    *)
(*    applies the write and runs the continuation up to the next await,    *)
(*    WriteFails runs the catch block.                                     *)
(*  - ToolViewer (viewer.js): resolution of the tool definition, the       *)
(*    sandboxed iframe, the composed document and its parse.               *)
(*    The events of the iframe that follow the load (DOMContentLoaded,     *)
(*    'tool-loaded', load) are part of it.                                 *)
(*  - the pure functions getDurationBucket and escapeHtml.                 *)
(*  - the transactions on one tool_stats and one daily_pages path, run by  *)
(*    independent callers.                                                 *)
(*  - one browser: its tabs, their trackers and the persisted session id.  *)
(*  - ToolsLoader.trackToolClick (tools list): the click counters.         *)
(*  - AuthGuard (auth-guard.js): the auth listener, the role checks and    *)
(*    checkAccess on a page of the admin area.                             *)
(*                                                                         *)
(* Time is in milliseconds, as Date.now() gives it.                        *)
(***************************************************************************)
EXTENDS Integers, Sequences, FiniteSets, Bags, TLC

VARIABLES
    \* ---- the page and its clock
    now,                \* Date.now()
    calls,              \* external events delivered so far (bounded)
    failures,           \* remote writes that failed so far (bounded)
    \* ---- AnalyticsTracker fields
    sessionStart,       \* this.sessionStart
    pageViews,          \* this.pageViews
    lastActivity,       \* this.lastActivity
    activityTimeout,    \* this.activityTimeout: deadline of the pending debounce timer, or Absent
    heartbeatInterval,  \* this.heartbeatInterval: next deadline of the interval timer
    ops,                \* bag of asynchronous operations awaiting their current write
    \* ---- Realtime Database
    store,
    \* ---- history of the tracker (not fields of the code)
    lifecycle,          \* "Active" after init() called startSession, "Ended" after endSession was called
    pvBeforeEnd,        \* trackPageView calls made before the first endSession call
    hbLast,             \* time the last heartbeat write was issued (the timer's set-up time at first)
    endTime,            \* time of the first endSession call, or Absent
    activityLog,        \* input signals received and last_activity writes issued: their
                        \* numbers and the times of the latest ones; timers: the debounce
                        \* timers set and neither fired nor cleared, the n-th signal's
                        \* timer having id n
    \* ---- getDurationBucket applied to a drawn input
    bucketIn, bucketOut,
    \* ---- the viewer page (ToolViewer) and its environment
    urlHasId,           \* the page URL carries ?id=
    hasContainer,       \* the page has the #viewer-content element
    toolDoc,            \* the Firestore document tools/{id}
    vpc,                \* "new": not constructed; "awaitDoc": loadTool awaits the read;
                        \* "parsing": the composed document is being parsed; "done"
    toolData,           \* this.toolData
    iframeCreated,      \* this.iframe is set
    content,            \* what #viewer-content holds: "empty", "iframe", "loading", "error"
    iframeDisplay,      \* this.iframe.style.display
    errorMessage,       \* the message last given to showError, "" if none
    resolved,           \* outcome of the eligibility checks: "pending", "ok", "failed"
    frameDoc,           \* the document written into the iframe, as a sequence of segments
    parsePos,           \* segments of frameDoc parsed so far
    frameWin,           \* what window.parent / top / opener yield inside the iframe
    toolReads,          \* what tool-authored script got when reading the upward references
    viewReports,        \* view-accounting updates issued by trackToolView
    readiness,          \* the readiness signal: the iframe document's DOMContentLoaded
                        \* listener (armed), the host's 'tool-loaded' listener (listening),
                        \* DOMContentLoaded and load fired, signals dispatched and observed
    \* ---- one tool_stats/{toolId}/{action} counter and the callers incrementing it
    toolStat,           \* the value stored at the path, Absent for null
    txn,                \* per caller: the state of its transaction()
    \* ---- one daily_pages/{date}/{normalizedPath} counter and the sessions viewing the page
    dailyPage,          \* the value stored at the path, Absent for null
    pageTxn,            \* per session: the state of its transaction()
    \* ---- one browser: its local storage, its page loads (tabs) and the store paths
    \*      of the sessions they use
    localStorage,       \* the item dtz_session_id, Absent if not set
    trackers,           \* per tab: the AnalyticsTracker of the page loaded in it
    tabOps,             \* asynchronous operations of the tabs' trackers awaiting a write
    rtdb,               \* the store paths written for the sessions of this browser
    tabFailures,        \* remote writes of the tabs that failed so far (bounded)
    \* ---- an admin page: Firebase Auth, the admins collection and the AuthGuard objects
    adminPage,          \* isAdminPage(): the page is under /admin/ and is not the login page
    adminDocs,          \* per uid: the admins/{uid} document
    authUser,           \* auth.currentUser, "none" when signed out
    authChanges,        \* auth-state changes so far (bounded)
    guards,             \* per AuthGuard object: its fields and its listener
    roleChecks,         \* bag of listener callbacks suspended at await checkAdminRole(uid)
    page,               \* the admin page: what it shows, whether it is being left
    accessAnswer,       \* whether AuthGuard.checkAccess() has resolved, and to what
    storedSession,      \* the local-storage item admin_session: "none", "live", "expired"
    verdicts            \* per admin-eligibility check: the call made of it and its result

trackerVars == <<now, calls, failures, sessionStart, pageViews, lastActivity,
                 activityTimeout, heartbeatInterval, ops, store, lifecycle,
                 pvBeforeEnd, hbLast, endTime, activityLog>>
bucketVars == <<bucketIn, bucketOut>>
viewerVars == <<urlHasId, hasContainer, toolDoc, vpc, toolData, iframeCreated, content,
                iframeDisplay, errorMessage, resolved, frameDoc, parsePos, frameWin, toolReads,
                viewReports, readiness>>
statVars == <<toolStat, txn>>
pageVars == <<dailyPage, pageTxn>>
counterVars == <<statVars, pageVars>>
browserVars == <<localStorage, trackers, tabOps, rtdb, tabFailures>>
guardVars == <<adminPage, adminDocs, authUser, authChanges, guards, roleChecks, page,
               accessAnswer, storedSession, verdicts>>
vars == <<trackerVars, bucketVars, viewerVars, counterVars, browserVars, guardVars>>

----------------------------------------------------------------------------
(* Program constants *)
HeartbeatPeriod == 30000
DebounceDelay == 1000
MsPerSecond == 1000

(* Bounds of the model *)
PageLoadTime == 2000
MaxNow == 62000
MaxCalls == 2
MaxFailures == 1
MaxInFlight == 3
MaxDurationSec == 7201
MaxLen == 4
MaxCallers == 3
TickStep == 500
MaxActivityNow == 4000
MaxTabs == 2
MaxPageViews == 2
MaxGuards == 2
MaxAuthChanges == 1
MaxToolErrors == 2
MaxPriorViews == 1
MaxViews == 5

Absent == 0 - 1

----------------------------------------------------------------------------
(* getDurationBucket *)

Buckets == {"0-10s", "10-30s", "30-60s", "1-5m", "5-10m", "10-30m", "30-60m", "60m+"}

getDurationBucketOffByOne(duration) ==
    LET seconds == duration \div MsPerSecond IN
    IF seconds <= 10 THEN "0-10s"
    ELSE IF seconds <= 30 THEN "10-30s"
    ELSE IF seconds <= 60 THEN "30-60s"
    ELSE IF seconds <= 300 THEN "1-5m"
    ELSE IF seconds <= 600 THEN "5-10m"
    ELSE IF seconds <= 1800 THEN "10-30m"
    ELSE IF seconds <= 3600 THEN "30-60m"
    ELSE "60m+"

getDurationBucket(duration) ==
    LET seconds == duration \div MsPerSecond IN
    IF seconds < 10 THEN "0-10s"
    ELSE IF seconds < 30 THEN "10-30s"
    ELSE IF seconds < 60 THEN "30-60s"
    ELSE IF seconds < 300 THEN "1-5m"
    ELSE IF seconds < 600 THEN "5-10m"
    ELSE IF seconds < 1800 THEN "10-30m"
    ELSE IF seconds < 3600 THEN "30-60m"
    ELSE "60m+"

----------------------------------------------------------------------------
(* Realtime Database: the paths the tracker writes *)

NoSession == [status |-> "none", page_views |-> Absent, last_activity |-> Absent,
              heartbeat |-> Absent, end_time |-> Absent, duration |-> Absent]

RECURSIVE SumOver(_, _)
SumOver(f, S) == IF S = {} THEN 0
                 ELSE LET x == CHOOSE y \in S : TRUE IN f[x] + SumOver(f, S \ {x})

(* new Date().toISOString().split('T')[0] of a time: the day it lies in *)
MsPerDay == 86400000
DateKey(t) == t \div MsPerDay

(* the dates with an entry under daily_views: the day of the page load and the
   day before *)
Dates == {DateKey(PageLoadTime) - 1, DateKey(PageLoadTime)}

EmptyStore == [session |-> NoSession,
               page_view_seqs |-> {},
               daily_users |-> FALSE,
               active_sessions |-> FALSE,
               daily_pages |-> 0,
               tool_interactions |-> 0,
               tool_stats |-> 0,
               events |-> 0,
               tool_views |-> 0,
               daily_views |-> [d \in Dates |-> 0],
               tool_clicks |-> 0,
               session_durations |-> [b \in Buckets |-> 0]]

(* An asynchronous operation awaiting the write of its step.
   ts, n: the values it carries (a time stamp, a page-view count or sequence
   number; for endSession ts is the end time and the duration is ts - sessionStart,
   sessionStart being fixed at construction); late: invoked (or, for a timer
   callback, fired) after endSession had been called. *)
Op(name, step, ts, n, late) == [op |-> name, step |-> step, ts |-> ts, n |-> n, late |-> late]

(* The operation that continues o after its awaited write succeeded. *)
NextStep(o, ts, n) == [o EXCEPT !.step = @ + 1, !.ts = ts, !.n = n]

InFlight == BagCardinality(ops)

(* the server adds 2 *)
incrementTwice(current) == current + 2

(* firebase.database.ServerValue.increment(1): the server adds 1 to the value at
   the path, atomically *)
increment(current) == current + 1

(* an update that reaches the total but not the date's entry *)
updateViewsTotalOnly(st, date) == [st EXCEPT !.tool_views = increment(@)]

(* rtdb.ref().update(updates) of trackToolView: one update of several paths,
   applied as a whole: tool_views/{toolId}/total and daily_views/{date}/{toolId}
   are each incremented *)
updateViews(st, date) ==
    [st EXCEPT !.tool_views = increment(@), !.daily_views[date] = increment(@)]

(* The effect on the store of the write of operation o's current step. *)
ApplyWrite(o, st) ==
    CASE o.op = "startSession" /\ o.step = 1 ->
            [st EXCEPT !.session = [status |-> "active", page_views |-> 1, last_activity |-> o.ts,
                                    heartbeat |-> Absent, end_time |-> Absent, duration |-> Absent]]
      [] o.op = "startSession" /\ o.step = 2 -> [st EXCEPT !.daily_users = TRUE]
      [] o.op = "startSession" /\ o.step = 3 -> [st EXCEPT !.active_sessions = TRUE]
      [] o.op = "pageView" /\ o.step = 1 ->
            [st EXCEPT !.page_view_seqs = @ \cup {o.n}]
      [] o.op = "pageView" /\ o.step = 2 ->
            [st EXCEPT !.session.last_activity = o.ts, !.session.page_views = o.n]
      [] o.op = "pageView" /\ o.step = 3 -> [st EXCEPT !.daily_pages = @ + 1]
      [] o.op = "tool" /\ o.step = 1 -> [st EXCEPT !.tool_interactions = @ + 1]
      [] o.op = "tool" /\ o.step = 2 -> [st EXCEPT !.tool_stats = @ + 1]
      [] o.op = "tool" /\ o.step = 3 -> [st EXCEPT !.session.last_activity = o.ts]
      [] o.op = "end" /\ o.step = 1 ->
            [st EXCEPT !.session.end_time = o.ts, !.session.duration = o.ts - sessionStart,
                       !.session.status = "ended", !.session.page_views = o.n]
      [] o.op = "end" /\ o.step = 2 -> [st EXCEPT !.active_sessions = FALSE]
      [] o.op = "end" /\ o.step = 3 ->
            [st EXCEPT !.session_durations[getDurationBucket(o.ts - sessionStart)] = @ + 1]
      [] o.op = "activity" -> [st EXCEPT !.session.last_activity = o.ts]
      [] o.op = "heartbeat" -> [st EXCEPT !.session.heartbeat = o.ts]
      [] o.op = "event" -> [st EXCEPT !.events = @ + 1]
      \* one update() of several paths: tool_views/{id}/total and daily_views/{date}/{id}
      \* are incremented together, as are tool_clicks/{id}/total and
      \* daily_clicks/{date}/{id}
      [] o.op = "toolView" -> updateViews(st, DateKey(o.ts))
      [] o.op = "toolClick" -> [st EXCEPT !.tool_clicks = increment(@)]

----------------------------------------------------------------------------
(* The tracker after `new AnalyticsTracker()`: init() has called startSession and
   trackPageView up to their first await and has set up the timers. *)
InitTrackerOn(st) ==
    /\ now = PageLoadTime
    /\ calls = 0
    /\ failures = 0
    /\ sessionStart = now
    /\ pageViews = 1
    /\ lastActivity = now
    /\ activityTimeout = Absent
    /\ heartbeatInterval = now + HeartbeatPeriod
    /\ ops = SetToBag({Op("startSession", 1, now, 1, FALSE), Op("pageView", 1, now, 1, FALSE)})
    /\ store = st
    /\ lifecycle = "Active"
    /\ pvBeforeEnd = 1
    /\ hbLast = now
    /\ endTime = Absent
    /\ activityLog = [signals |-> 0, signal |-> Absent, writes |-> 0, debounced |-> Absent,
                      direct |-> Absent, timers |-> {}]

InitTracker == InitTrackerOn(EmptyStore)

Ended == lifecycle = "Ended"

(* An external event (a call from the page, an input or visibility event, the
   beforeunload signal) can be delivered. *)
CanCall == calls < MaxCalls

CanIssue == InFlight < MaxInFlight

history == <<lifecycle, pvBeforeEnd, hbLast, endTime>>

(* a trackPageView that is held back until startSession's first write is stored *)
trackPageViewAfterStart ==
    /\ store.session.status # "none"
    /\ CanCall /\ CanIssue
    /\ calls' = calls + 1
    /\ pageViews' = pageViews + 1
    /\ lastActivity' = now
    /\ ops' = ops (+) SetToBag({Op("pageView", 1, now, pageViews + 1, Ended)})
    /\ pvBeforeEnd' = IF Ended THEN pvBeforeEnd ELSE pvBeforeEnd + 1
    /\ UNCHANGED <<failures, now, sessionStart, activityTimeout, heartbeatInterval, store,
                   lifecycle, hbLast, endTime, activityLog>>
    /\ UNCHANGED <<bucketVars, viewerVars, counterVars, browserVars, guardVars>>

(* trackPageView up to its first await *)
trackPageView ==
    /\ CanCall /\ CanIssue
    /\ calls' = calls + 1
    /\ pageViews' = pageViews + 1
    /\ lastActivity' = now
    /\ ops' = ops (+) SetToBag({Op("pageView", 1, now, pageViews + 1, Ended)})
    /\ pvBeforeEnd' = IF Ended THEN pvBeforeEnd ELSE pvBeforeEnd + 1
    /\ UNCHANGED <<failures, now, sessionStart, activityTimeout, heartbeatInterval, store,
                   lifecycle, hbLast, endTime, activityLog>>
    /\ UNCHANGED <<bucketVars, viewerVars, counterVars, browserVars, guardVars>>

(* a trackToolInteraction that starts with the tool_stats transaction *)
trackToolInteractionCountingFirst ==
    /\ CanCall /\ CanIssue
    /\ calls' = calls + 1
    /\ ops' = ops (+) SetToBag({Op("tool", 2, now, 0, Ended)})
    /\ UNCHANGED <<failures, now, sessionStart, pageViews, lastActivity, activityTimeout,
                   heartbeatInterval, store, history, activityLog>>
    /\ UNCHANGED <<bucketVars, viewerVars, counterVars, browserVars, guardVars>>

trackToolInteraction ==
    /\ CanCall /\ CanIssue
    /\ calls' = calls + 1
    /\ ops' = ops (+) SetToBag({Op("tool", 1, now, 0, Ended)})
    /\ UNCHANGED <<failures, now, sessionStart, pageViews, lastActivity, activityTimeout,
                   heartbeatInterval, store, history, activityLog>>
    /\ UNCHANGED <<bucketVars, viewerVars, counterVars, browserVars, guardVars>>

(* ToolsLoader.trackToolClick, called by openTool for an external tool: one
   update() of the click counters, awaited inside try/catch. *)
trackToolClick ==
    /\ CanCall /\ CanIssue
    /\ calls' = calls + 1
    /\ ops' = ops (+) SetToBag({Op("toolClick", 1, now, 0, Ended)})
    /\ UNCHANGED <<failures, now, sessionStart, pageViews, lastActivity, activityTimeout,
                   heartbeatInterval, store, history, activityLog>>
    /\ UNCHANGED <<bucketVars, viewerVars, counterVars, browserVars, guardVars>>

(* an endSession that leaves the page-view count out of its update *)
endSessionWithoutCount ==
    /\ CanCall /\ CanIssue
    /\ calls' = calls + 1
    /\ ops' = ops (+) SetToBag({Op("end", 1, now, 0, Ended)})
    /\ lifecycle' = "Ended"
    /\ endTime' = IF Ended THEN endTime ELSE now
    /\ UNCHANGED <<failures, now, sessionStart, pageViews, lastActivity, activityTimeout,
                   heartbeatInterval, store, pvBeforeEnd, hbLast, activityLog>>
    /\ UNCHANGED <<bucketVars, viewerVars, counterVars, browserVars, guardVars>>

(* The beforeunload listener: endSession up to its first await.  The signal does
   not end the page by itself (the navigation may be cancelled, or be a download):
   nothing in the tracker stops its timers or listeners afterwards. *)
endSession ==
    /\ CanCall /\ CanIssue
    /\ calls' = calls + 1
    /\ ops' = ops (+) SetToBag({Op("end", 1, now, pageViews, Ended)})
    /\ lifecycle' = "Ended"
    /\ endTime' = IF Ended THEN endTime ELSE now
    /\ UNCHANGED <<failures, now, sessionStart, pageViews, lastActivity, activityTimeout,
                   heartbeatInterval, store, pvBeforeEnd, hbLast, activityLog>>
    /\ UNCHANGED <<bucketVars, viewerVars, counterVars, browserVars, guardVars>>

(* a listener that writes on every signal *)
activitySignalUndebounced ==
    /\ CanCall
    /\ calls' = calls + 1
    /\ lastActivity' = now
    /\ ops' = ops (+) SetToBag({Op("activity", 1, now, 0, Ended)})
    /\ activityLog' = [activityLog EXCEPT !.signals = @ + 1, !.signal = now,
                                          !.writes = @ + 1, !.debounced = now]
    /\ UNCHANGED <<failures, now, sessionStart, pageViews, heartbeatInterval, activityTimeout,
                   store, history>>
    /\ UNCHANGED <<bucketVars, viewerVars, counterVars, browserVars, guardVars>>

(* a listener that sets a new timer without clearing the one before *)
activitySignalUncleared ==
    /\ CanCall
    /\ calls' = calls + 1
    /\ lastActivity' = now
    /\ activityTimeout' = now + DebounceDelay
    /\ activityLog' = [activityLog EXCEPT
                          !.signals = @ + 1, !.signal = now,
                          !.timers = @ \cup {[id |-> activityLog.signals + 1,
                                              due |-> now + DebounceDelay]}]
    /\ UNCHANGED <<failures, now, sessionStart, pageViews, heartbeatInterval, ops, store,
                   history>>
    /\ UNCHANGED <<bucketVars, viewerVars, counterVars, browserVars, guardVars>>

(* mousedown / keydown / scroll / touchstart listener: clearTimeout of the timer
   this.activityTimeout names (the one the signal before set), then setTimeout *)
activitySignal ==
    /\ CanCall
    /\ calls' = calls + 1
    /\ lastActivity' = now
    /\ activityTimeout' = now + DebounceDelay
    /\ activityLog' = [activityLog EXCEPT
                          !.signals = @ + 1, !.signal = now,
                          !.timers = {t \in @ : t.id # activityLog.signals}
                                        \cup {[id |-> activityLog.signals + 1,
                                               due |-> now + DebounceDelay]}]
    /\ UNCHANGED <<failures, now, sessionStart, pageViews, heartbeatInterval, ops, store,
                   history>>
    /\ UNCHANGED <<bucketVars, viewerVars, counterVars, browserVars, guardVars>>

(* The debounce timer fires: updateLastActivity up to its await. *)
activityTimerFires ==
    /\ \E t \in activityLog.timers :
         /\ now >= t.due
         /\ activityTimeout' = IF t.id = activityLog.signals THEN Absent ELSE activityTimeout
         /\ activityLog' = [activityLog EXCEPT !.writes = @ + 1, !.debounced = now,
                                               !.timers = @ \ {t}]
    /\ ops' = ops (+) SetToBag({Op("activity", 1, lastActivity, 0, Ended)})
    /\ UNCHANGED <<failures, now, calls, sessionStart, pageViews, lastActivity,
                   heartbeatInterval, store, history>>
    /\ UNCHANGED <<bucketVars, viewerVars, counterVars, browserVars, guardVars>>

(* a listener that leaves the write to the debounce timer *)
visibilityChangeDebounced(hidden) ==
    /\ CanCall /\ InFlight + 1 < MaxInFlight
    /\ calls' = calls + 1
    /\ ops' = ops (+) SetToBag({Op("event", 1, now, 0, Ended)})
    /\ IF hidden
          THEN UNCHANGED <<lastActivity, activityTimeout>>
          ELSE lastActivity' = now /\ activityTimeout' = now + DebounceDelay
    /\ UNCHANGED <<failures, now, sessionStart, pageViews, heartbeatInterval,
                   store, history, activityLog>>
    /\ UNCHANGED <<bucketVars, viewerVars, counterVars, browserVars, guardVars>>

(* visibilitychange listener; trackEvent and updateLastActivity each up to their await *)
visibilityChange(hidden) ==
    /\ CanCall /\ InFlight + 1 < MaxInFlight
    /\ calls' = calls + 1
    /\ IF hidden
          THEN /\ ops' = ops (+) SetToBag({Op("event", 1, now, 0, Ended)})
               /\ UNCHANGED <<lastActivity, activityLog>>
          ELSE /\ ops' = ops (+) SetToBag({Op("event", 1, now, 0, Ended)})
                              (+) SetToBag({Op("activity", 1, now, 0, Ended)})
               /\ lastActivity' = now
               /\ activityLog' = [activityLog EXCEPT !.direct = now]
    /\ UNCHANGED <<failures, now, sessionStart, pageViews, activityTimeout, heartbeatInterval,
                   store, history>>
    /\ UNCHANGED <<bucketVars, viewerVars, counterVars, browserVars, guardVars>>

(* setTimeout in place of setInterval: the timer is not re-armed *)
heartbeatOnce ==
    /\ heartbeatInterval # Absent /\ now >= heartbeatInterval
    /\ heartbeatInterval' = Absent
    /\ ops' = ops (+) SetToBag({Op("heartbeat", 1, now, 0, Ended)})
    /\ hbLast' = now
    /\ UNCHANGED <<failures, now, calls, sessionStart, pageViews, lastActivity,
                   activityTimeout, store, lifecycle, pvBeforeEnd, endTime, activityLog>>
    /\ UNCHANGED <<bucketVars, viewerVars, counterVars, browserVars, guardVars>>

(* The setInterval callback of setupHeartbeat up to its await; the interval re-arms. *)
heartbeat ==
    /\ heartbeatInterval # Absent /\ now >= heartbeatInterval
    /\ heartbeatInterval' = heartbeatInterval + HeartbeatPeriod
    /\ ops' = ops (+) SetToBag({Op("heartbeat", 1, now, 0, Ended)})
    /\ hbLast' = now
    /\ UNCHANGED <<failures, now, calls, sessionStart, pageViews, lastActivity,
                   activityTimeout, store, lifecycle, pvBeforeEnd, endTime, activityLog>>
    /\ UNCHANGED <<bucketVars, viewerVars, counterVars, browserVars, guardVars>>

(* Number of awaited writes of each asynchronous method. *)
Steps(name) ==
    CASE name \in {"startSession", "pageView", "tool", "end"} -> 3
      [] OTHER -> 1

(* a completion that reads the stored page-view count back into this.pageViews *)
writeSucceedsAdoptingCount(o) ==
    /\ BagIn(o, ops)
    /\ store' = ApplyWrite(o, store)
    /\ LET rest == ops (-) SetToBag({o}) IN
       IF o.step = Steps(o.op)
         THEN ops' = rest /\ UNCHANGED <<lastActivity, activityLog>>
         ELSE CASE o.op = "pageView" /\ o.step = 1 ->
                      \* the session update reads this.lastActivity and this.pageViews now
                      /\ ops' = rest (+) SetToBag({NextStep(o, lastActivity, pageViews)})
                      /\ UNCHANGED <<lastActivity, activityLog>>
                [] o.op = "tool" /\ o.step = 2 ->
                      /\ lastActivity' = now
                      /\ ops' = rest (+) SetToBag({NextStep(o, now, o.n)})
                      /\ activityLog' = [activityLog EXCEPT !.direct = now]
                [] OTHER ->
                      /\ ops' = rest (+) SetToBag({NextStep(o, o.ts, o.n)})
                      /\ UNCHANGED <<lastActivity, activityLog>>
    /\ pageViews' = IF store'.session.page_views # Absent
                       THEN store'.session.page_views
                       ELSE pageViews
    /\ UNCHANGED <<failures, now, calls, sessionStart, activityTimeout,
                   heartbeatInterval, history>>
    /\ UNCHANGED <<bucketVars, viewerVars, counterVars, browserVars, guardVars>>

(* The awaited write of o succeeds: it is applied, and the method continues up to
   its next await (or returns). *)
writeSucceeds(o) ==
    /\ BagIn(o, ops)
    /\ store' = ApplyWrite(o, store)
    /\ LET rest == ops (-) SetToBag({o}) IN
       IF o.step = Steps(o.op)
         THEN ops' = rest /\ UNCHANGED <<lastActivity, activityLog>>
         ELSE CASE o.op = "pageView" /\ o.step = 1 ->
                      \* the session update reads this.lastActivity and this.pageViews now
                      /\ ops' = rest (+) SetToBag({NextStep(o, lastActivity, pageViews)})
                      /\ UNCHANGED <<lastActivity, activityLog>>
                [] o.op = "tool" /\ o.step = 2 ->
                      /\ lastActivity' = now
                      /\ ops' = rest (+) SetToBag({NextStep(o, now, o.n)})
                      /\ activityLog' = [activityLog EXCEPT !.direct = now]
                [] OTHER ->
                      /\ ops' = rest (+) SetToBag({NextStep(o, o.ts, o.n)})
                      /\ UNCHANGED <<lastActivity, activityLog>>
    /\ UNCHANGED <<failures, now, calls, sessionStart, pageViews, activityTimeout,
                   heartbeatInterval, history>>
    /\ UNCHANGED <<bucketVars, viewerVars, counterVars, browserVars, guardVars>>

(* a catch block that issues the failed write again *)
writeFailsRetry(o) ==
    /\ BagIn(o, ops)
    /\ failures < MaxFailures
    /\ failures' = failures + 1
    /\ ops' = ops
    /\ UNCHANGED <<now, calls, sessionStart, pageViews, lastActivity,
                   activityTimeout, heartbeatInterval, store, history, activityLog>>
    /\ UNCHANGED <<bucketVars, viewerVars, counterVars, browserVars, guardVars>>

(* each write in a try block of its own: after a failed write the method goes
   on to its next write *)
writeFailsContinuing(o) ==
    /\ BagIn(o, ops)
    /\ failures < MaxFailures
    /\ failures' = failures + 1
    /\ ops' = IF o.step = Steps(o.op)
                THEN ops (-) SetToBag({o})
                ELSE (ops (-) SetToBag({o})) (+) SetToBag({NextStep(o, o.ts, o.n)})
    /\ UNCHANGED <<now, calls, sessionStart, pageViews, lastActivity,
                   activityTimeout, heartbeatInterval, store, history, activityLog>>
    /\ UNCHANGED <<bucketVars, viewerVars, counterVars, browserVars, guardVars>>

(* The awaited write of o fails: the catch block logs, the method returns. *)
writeFails(o) ==
    /\ BagIn(o, ops)
    /\ failures < MaxFailures
    /\ failures' = failures + 1
    /\ ops' = ops (-) SetToBag({o})
    /\ UNCHANGED <<now, calls, sessionStart, pageViews, lastActivity,
                   activityTimeout, heartbeatInterval, store, history, activityLog>>
    /\ UNCHANGED <<bucketVars, viewerVars, counterVars, browserVars, guardVars>>

(* Time passes up to the next timer deadline.  A timer that is due fires before
   time moves on. *)
Deadlines ==
    {d \in {activityTimeout, heartbeatInterval} : d # Absent}
        \cup {t.due : t \in activityLog.timers}

advance ==
    /\ \A t \in Deadlines : now < t
    /\ LET reach == Deadlines \cup {now + HeartbeatPeriod}
           next == CHOOSE t \in reach : \A u \in reach : t <= u
       IN /\ next <= MaxNow
          /\ now' = next
    /\ UNCHANGED <<failures, calls, sessionStart, pageViews, lastActivity,
                   activityTimeout, heartbeatInterval, ops, store, history, activityLog>>
    /\ UNCHANGED <<bucketVars, viewerVars, counterVars, browserVars, guardVars>>

(* Time passes by a fraction of a second, not beyond the next timer deadline. *)
tick ==
    /\ \A t \in Deadlines : now < t
    /\ LET reach == Deadlines \cup {now + TickStep}
           next == CHOOSE t \in reach : \A u \in reach : t <= u
       IN /\ next <= MaxActivityNow
          /\ now' = next
    /\ UNCHANGED <<failures, calls, sessionStart, pageViews, lastActivity,
                   activityTimeout, heartbeatInterval, ops, store, history, activityLog>>
    /\ UNCHANGED <<bucketVars, viewerVars, counterVars, browserVars, guardVars>>

(* The activity listeners and the calls that write last_activity, on a fine clock. *)
NextActivity ==
    \/ activitySignal
    \/ activityTimerFires
    \/ \E hidden \in BOOLEAN : visibilityChange(hidden)
    \/ trackToolInteraction
    \/ \E o \in BagToSet(ops) : writeSucceeds(o)
    \/ \E o \in BagToSet(ops) : writeFails(o)
    \/ tick

(* The page views and the end of the session, with the timers running. *)
NextSession ==
    \/ trackPageView
    \/ endSession
    \/ heartbeat
    \/ \E o \in BagToSet(ops) : writeSucceeds(o)
    \/ \E o \in BagToSet(ops) : writeFails(o)
    \/ advance

(* What the page does by itself. *)
TimersAndWrites ==
    \/ activityTimerFires
    \/ heartbeat
    \/ \E o \in BagToSet(ops) : writeSucceeds(o)
    \/ \E o \in BagToSet(ops) : writeFails(o)
    \/ advance

NextTracker ==
    \/ trackPageView
    \/ trackToolInteraction
    \/ endSession
    \/ activitySignal
    \/ activityTimerFires
    \/ \E hidden \in BOOLEAN : visibilityChange(hidden)
    \/ heartbeat
    \/ \E o \in BagToSet(ops) : writeSucceeds(o)
    \/ \E o \in BagToSet(ops) : writeFails(o)
    \/ advance

(* getDurationBucket on every duration of whole and fractional seconds up to the bound *)

DurationInputs == {sec * MsPerSecond + ms : sec \in 0..MaxDurationSec, ms \in {0, MsPerSecond - 1}}

classifyDuration ==
    /\ bucketOut = ""
    /\ bucketOut' = getDurationBucket(bucketIn)
    /\ UNCHANGED bucketIn
    /\ UNCHANGED <<trackerVars, viewerVars, counterVars, browserVars, guardVars>>

----------------------------------------------------------------------------
(* ToolViewer: strings *)

(* Tool names and descriptions are sequences of characters: the three markup
   delimiters and the characters that spell a character reference. *)
Chars == {"<", ">", "&", "l", "t", ";"}

RECURSIVE Strings(_)
Strings(n) ==
    IF n = 0 THEN {<<>>}
    ELSE LET S == Strings(n - 1) IN S \cup {Append(str, c) : str \in S, c \in Chars}

(* Serialization of one character of a text node (what reading innerHTML gives). *)
EscapeChar(c) ==
    CASE c = "&" -> <<"&", "a", "m", "p", ";">>
      [] c = "<" -> <<"&", "l", "t", ";">>
      [] c = ">" -> <<"&", "g", "t", ";">>
      [] OTHER -> <<c>>

RECURSIVE SerializeText(_)
SerializeText(text) ==
    IF text = <<>> THEN <<>> ELSE EscapeChar(Head(text)) \o SerializeText(Tail(text))

RECURSIVE SerializeTextAmpersandKept(_)
SerializeTextAmpersandKept(text) ==
    IF text = <<>> THEN <<>>
    ELSE (IF Head(text) = "&" THEN <<"&">> ELSE EscapeChar(Head(text)))
         \o SerializeTextAmpersandKept(Tail(text))

(* an escape that replaces "<" and ">" only *)
escapeHtmlAmpersandKept(text) ==
    IF text = <<>> THEN <<>> ELSE SerializeTextAmpersandKept(text)

(* escapeHtml: '' for a falsy text, else the text set as textContent of a div and
   read back as innerHTML. *)
escapeHtml(text) ==
    IF text = <<>> THEN <<>> ELSE SerializeText(text)

----------------------------------------------------------------------------
(* ToolViewer: the tool definition and the composed document *)

(* A hosted payload: absent, markup or style without script, or containing script
   (which reads the upward references when it runs). *)
Payloads == {"", "plain", "script"}

ToolDocs(names, descriptions) ==
    [exists : BOOLEAN, enabled : BOOLEAN, type : {"hosted", "external"},
     hostedHtml : Payloads, hostedCss : {"", "script"}, hostedJs : {"", "script"},
     name : names, description : descriptions, showHeader : BOOLEAN]

Seg(kind, text, payload) == [kind |-> kind, text |-> text, payload |-> payload]

(* toolHtml of loadToolIntoIframe, in document order. *)
ComposeDocument(d) ==
    <<Seg("title", escapeHtml(d.name), ""), Seg("css", <<>>, d.hostedCss)>>
    \o (IF d.showHeader
          THEN <<Seg("h1", escapeHtml(d.name), "")>>
               \o (IF d.description # <<>>
                     THEN <<Seg("p", escapeHtml(d.description), "")>> ELSE <<>>)
          ELSE <<>>)
    \o <<Seg("html", <<>>, d.hostedHtml)>>
    \o (IF d.hostedJs # "" THEN <<Seg("js", <<>>, d.hostedJs)>> ELSE <<>>)
    \o <<Seg("isolation", <<>>, "")>>

(* Error messages *)
NoToolIdMessage == "No tool ID specified"
StoreErrorMessage == "store read failed"
LoadErrorMessage == "Failed to load tool content"
NoDocumentMessage == "Cannot read properties of null (reading 'document')"

ResolutionErrorTypeFirst(doc) ==
    IF ~doc.exists THEN "Tool not found"
    ELSE IF doc.type # "hosted" THEN "This tool cannot be viewed in the viewer"
    ELSE IF ~doc.enabled THEN "This tool is currently disabled"
    ELSE IF doc.hostedHtml = "" THEN "No HTML content available for this tool"
    ELSE ""

(* The eligibility checks of loadTool: the message of the error thrown, "" if none. *)
ResolutionError(doc) ==
    IF ~doc.exists THEN "Tool not found"
    ELSE IF ~doc.enabled THEN "This tool is currently disabled"
    ELSE IF doc.type # "hosted" THEN "This tool cannot be viewed in the viewer"
    ELSE IF doc.hostedHtml = "" THEN "No HTML content available for this tool"
    ELSE ""

(* Inside a freshly created iframe: parent and top are the host page's window,
   opener is null. *)
HostRefs == [parent |-> "host", top |-> "host", opener |-> "null"]

(* The statements of the shell's last script, in order: the three
   Object.defineProperty calls on window (inside if (window.parent !== window),
   which holds in an iframe) and, after them, the registration of the
   DOMContentLoaded listener that dispatches 'tool-loaded'.  The assignments to
   window.open, alert, confirm and prompt between them change none of the
   modelled state. *)
IsolationScript ==
    << [do |-> "define", name |-> "parent"],
       [do |-> "define", name |-> "top"],
       [do |-> "define", name |-> "opener"],
       [do |-> "listen", name |-> "DOMContentLoaded"] >>

(* window.top is an unforgeable (non-configurable) property of every Window:
   Object.defineProperty on it throws a TypeError. *)
Unforgeable == {"top"}

NoReadiness == [armed |-> FALSE, listening |-> FALSE, loaded |-> FALSE, native |-> FALSE,
                signals |-> 0, observed |-> 0, errors |-> 0, logged |-> 0]

(* Runs the statements from the state st = [win, armed]; an uncaught exception
   ends the script, the statements after it do not run. *)
RECURSIVE RunScript(_, _)
RunScript(stmts, st) ==
    IF stmts = <<>>
      THEN st
      ELSE LET s == Head(stmts) IN
             CASE s.do = "define" /\ s.name \in Unforgeable -> st
               [] s.do = "define" ->
                     RunScript(Tail(stmts), [st EXCEPT !.win = [@ EXCEPT ![s.name] = "null"]])
               [] OTHER -> RunScript(Tail(stmts), [st EXCEPT !.armed = TRUE])

----------------------------------------------------------------------------
(* ToolViewer: operations *)

InitViewer(ids, containers, docs) ==
    /\ urlHasId \in ids
    /\ hasContainer \in containers
    /\ toolDoc \in docs
    /\ vpc = "new"
    /\ toolData = <<>>
    /\ iframeCreated = FALSE
    /\ content = "empty"
    /\ iframeDisplay = ""
    /\ errorMessage = ""
    /\ resolved = "pending"
    /\ frameDoc = <<>>
    /\ parsePos = 0
    /\ frameWin = HostRefs
    /\ toolReads = {}
    /\ viewReports = 0
    /\ readiness = NoReadiness

environment == <<urlHasId, hasContainer, toolDoc>>

(* new ToolViewer(): init(), then setupViewer() and loadTool() up to its await. *)
construct ==
    /\ vpc = "new"
    /\ IF ~urlHasId
         THEN \* showError('No tool ID specified'); return
              /\ errorMessage' = NoToolIdMessage
              /\ content' = IF hasContainer THEN "error" ELSE content
              /\ vpc' = "done"
              /\ UNCHANGED <<iframeCreated, iframeDisplay>>
         ELSE \* setupViewer creates the iframe and appends it; showLoading(true)
              \* hides it and replaces the container's content
              /\ iframeCreated' = TRUE
              /\ content' = IF hasContainer THEN "loading" ELSE content
              /\ iframeDisplay' = IF hasContainer THEN "none" ELSE iframeDisplay
              /\ vpc' = "awaitDoc"
              /\ UNCHANGED errorMessage
    /\ UNCHANGED <<environment, toolData, resolved, frameDoc, parsePos, frameWin, toolReads,
                   viewReports, readiness>>
    /\ UNCHANGED <<trackerVars, bucketVars, counterVars, browserVars, guardVars>>

(* the error leaves loadTool: neither the catch nor the finally block runs *)
abortLoadUncaught(message) ==
    /\ vpc' = "done"
    /\ UNCHANGED <<errorMessage, content, iframeDisplay, frameDoc, parsePos, frameWin,
                   toolReads, viewReports>>

(* the document is written into the iframe before the error is handled *)
abortLoadAfterWrite(message) ==
    /\ errorMessage' = message
    /\ content' = IF hasContainer THEN "iframe" ELSE content
    /\ iframeDisplay' = IF hasContainer THEN "block" ELSE iframeDisplay
    /\ vpc' = "done"
    /\ frameDoc' = ComposeDocument(toolDoc)
    /\ UNCHANGED <<parsePos, frameWin, toolReads, viewReports>>

(* trackToolView is called on the way out of a failed load *)
abortLoadCountingView(message) ==
    /\ errorMessage' = message
    /\ content' = IF hasContainer THEN "iframe" ELSE content
    /\ iframeDisplay' = IF hasContainer THEN "block" ELSE iframeDisplay
    /\ vpc' = "done"
    /\ viewReports' = viewReports + 1
    /\ UNCHANGED <<frameDoc, parsePos, frameWin, toolReads>>

(* catch and finally of loadTool: showError(error.message), showLoading(false). *)
abortLoad(message) ==
    /\ errorMessage' = message
    /\ content' = IF hasContainer THEN "iframe" ELSE content
    /\ iframeDisplay' = IF hasContainer THEN "block" ELSE iframeDisplay
    /\ vpc' = "done"
    /\ UNCHANGED <<frameDoc, parsePos, frameWin, toolReads, viewReports>>

(* loadTool after its await.  readOk: the read resolved (else it rejected).
   hasDocument: the iframe exposes a document to write to.  An iframe that is in
   the page does; for one that is not, the HTML standard gives null (the access
   throws into the catch block) while the viewer is written as if the document
   were there: both outcomes are modelled. *)
loadToolContinues(readOk) ==
    /\ vpc = "awaitDoc"
    /\ IF ~readOk
         THEN /\ resolved' = "failed"
              /\ abortLoad(StoreErrorMessage)
              /\ UNCHANGED toolData
         ELSE /\ toolData' = IF toolDoc.exists THEN <<toolDoc>> ELSE toolData
              /\ IF ResolutionError(toolDoc) # ""
                   THEN /\ resolved' = "failed"
                        /\ abortLoad(ResolutionError(toolDoc))
                   ELSE /\ resolved' = "ok"
                        /\ \E hasDocument \in (IF content = "iframe" THEN {TRUE} ELSE BOOLEAN) :
                             IF hasDocument
                               THEN \* loadToolIntoIframe: iframeDoc.write(toolHtml)
                                    /\ frameDoc' = ComposeDocument(toolDoc)
                                    /\ parsePos' = 0
                                    /\ frameWin' = HostRefs
                                    /\ vpc' = "parsing"
                                    /\ UNCHANGED <<errorMessage, content, iframeDisplay,
                                                   toolReads, viewReports>>
                               ELSE abortLoad(NoDocumentMessage)
    /\ UNCHANGED <<environment, iframeCreated, readiness>>
    /\ UNCHANGED <<trackerVars, bucketVars, counterVars, browserVars, guardVars>>

(* The parser reaches the next segment of the written document; a script in it
   runs. *)
parseStep ==
    /\ vpc = "parsing"
    /\ parsePos < Len(frameDoc)
    /\ parsePos' = parsePos + 1
    /\ LET seg == frameDoc[parsePos + 1] IN
         CASE seg.kind \in {"css", "html", "js"} /\ seg.payload = "script" ->
                 /\ toolReads' = toolReads \cup {frameWin.parent, frameWin.top, frameWin.opener}
                 /\ UNCHANGED <<frameWin, readiness>>
           [] seg.kind = "isolation" ->
                 LET end == RunScript(IsolationScript,
                                      [win |-> frameWin, armed |-> readiness.armed]) IN
                   /\ frameWin' = end.win
                   /\ readiness' = [readiness EXCEPT !.armed = end.armed]
                   /\ UNCHANGED toolReads
           [] OTHER -> UNCHANGED <<frameWin, toolReads, readiness>>
    /\ UNCHANGED <<environment, vpc, toolData, iframeCreated, content, iframeDisplay,
                   errorMessage, resolved, frameDoc, viewReports>>
    /\ UNCHANGED <<trackerVars, bucketVars, counterVars, browserVars, guardVars>>

(* The write returned: setupIframeEvents (the host listens for 'tool-loaded' on
   the iframe's window), trackToolView up to its await (the update of tool_views
   and daily_views in the Realtime Database), and the finally block's
   showLoading(false). *)
finishLoad ==
    /\ vpc = "parsing"
    /\ parsePos = Len(frameDoc)
    /\ readiness' = [readiness EXCEPT !.listening = TRUE]
    /\ viewReports' = viewReports + 1
    /\ ops' = ops (+) SetToBag({Op("toolView", 1, now, 0, Ended)})
    /\ content' = IF hasContainer THEN "iframe" ELSE content
    /\ iframeDisplay' = IF hasContainer THEN "block" ELSE iframeDisplay
    /\ vpc' = "done"
    /\ UNCHANGED <<environment, toolData, iframeCreated, errorMessage, resolved, frameDoc,
                   parsePos, frameWin, toolReads>>
    /\ UNCHANGED <<now, calls, failures, sessionStart, pageViews, lastActivity,
                   activityTimeout, heartbeatInterval, store, history, activityLog>>
    /\ UNCHANGED <<bucketVars, counterVars, browserVars, guardVars>>

(* The task queued when the written document was closed: DOMContentLoaded fires
   in the iframe.  The listener of the shell's last script, if it was
   registered, dispatches 'tool-loaded' on the iframe's window; the host's
   listener, if in place, runs showLoading(false). *)
domContentLoaded ==
    /\ vpc = "done"
    /\ frameDoc # <<>>
    /\ ~readiness.loaded
    /\ LET heard == readiness.armed /\ readiness.listening IN
         /\ readiness' = [readiness EXCEPT
                             !.loaded = TRUE,
                             !.signals = IF readiness.armed THEN @ + 1 ELSE @,
                             !.observed = IF heard THEN @ + 1 ELSE @]
         /\ content' = IF heard /\ hasContainer THEN "iframe" ELSE content
         /\ iframeDisplay' = IF heard /\ hasContainer THEN "block" ELSE iframeDisplay
    /\ UNCHANGED <<environment, vpc, toolData, iframeCreated, errorMessage, resolved, frameDoc,
                   parsePos, frameWin, toolReads, viewReports>>
    /\ UNCHANGED <<trackerVars, bucketVars, counterVars, browserVars, guardVars>>

(* The iframe's load event: this.iframe.onload runs showLoading(false). *)
iframeOnload ==
    /\ readiness.loaded
    /\ ~readiness.native
    /\ readiness' = [readiness EXCEPT !.native = TRUE]
    /\ content' = IF hasContainer THEN "iframe" ELSE content
    /\ iframeDisplay' = IF hasContainer THEN "block" ELSE iframeDisplay
    /\ UNCHANGED <<environment, vpc, toolData, iframeCreated, errorMessage, resolved, frameDoc,
                   parsePos, frameWin, toolReads, viewReports>>
    /\ UNCHANGED <<trackerVars, bucketVars, counterVars, browserVars, guardVars>>

(* an 'error' listener that reports to the user, as this.iframe.onerror does *)
toolErrorShown ==
    /\ vpc \in {"parsing", "done"}
    /\ parsePos > 0
    /\ readiness.errors < MaxToolErrors
    /\ readiness' = [readiness EXCEPT !.errors = @ + 1,
                                      !.logged = IF readiness.listening THEN @ + 1 ELSE @]
    /\ errorMessage' = IF readiness.listening THEN LoadErrorMessage ELSE errorMessage
    /\ content' = IF readiness.listening /\ hasContainer THEN "error" ELSE content
    /\ UNCHANGED <<environment, vpc, toolData, iframeCreated, iframeDisplay, resolved, frameDoc,
                   parsePos, frameWin, toolReads, viewReports>>
    /\ UNCHANGED <<trackerVars, bucketVars, counterVars, browserVars, guardVars>>

(* A script of the written document throws and nothing in the iframe catches
   it: an 'error' event on the iframe's window.  The host's listener, in place
   once setupIframeEvents has run, calls console.error and nothing else. *)
toolError ==
    /\ vpc \in {"parsing", "done"}
    /\ parsePos > 0
    /\ readiness.errors < MaxToolErrors
    /\ readiness' = [readiness EXCEPT !.errors = @ + 1,
                                      !.logged = IF readiness.listening THEN @ + 1 ELSE @]
    /\ UNCHANGED <<environment, vpc, toolData, iframeCreated, content, iframeDisplay,
                   errorMessage, resolved, frameDoc, parsePos, frameWin, toolReads, viewReports>>
    /\ UNCHANGED <<trackerVars, bucketVars, counterVars, browserVars, guardVars>>

NextViewer ==
    \/ construct
    \/ \E readOk \in BOOLEAN : loadToolContinues(readOk)
    \/ parseStep
    \/ finishLoad

(* the viewer page with the events of the iframe that follow the load *)
NextViewerPage ==
    \/ construct
    \/ \E readOk \in BOOLEAN : loadToolContinues(readOk)
    \/ parseStep
    \/ finishLoad
    \/ domContentLoaded
    \/ iframeOnload
    \/ toolError

(* Tool definitions of the viewer runs, and of the runs that compose the shell
   for every name. *)
ViewerDocs == ToolDocs({<<"l">>, <<"<", "l", ">">>}, {<<>>, <<"&">>})

DescriptionSamples == {<<>>, <<"<", "l", ">">>, <<"&", "l", "t", ";">>}

ShellDocs ==
    {d \in ToolDocs(Strings(MaxLen), DescriptionSamples) :
        /\ d.exists /\ d.enabled /\ d.type = "hosted"
        /\ d.hostedHtml = "plain" /\ d.hostedCss = "" /\ d.hostedJs = "script"}

InitViewerIdle ==
    InitViewer({FALSE}, {FALSE},
               {[exists |-> FALSE, enabled |-> FALSE, type |-> "hosted", hostedHtml |-> "",
                 hostedCss |-> "", hostedJs |-> "", name |-> <<>>, description |-> <<>>,
                 showHeader |-> FALSE]})

----------------------------------------------------------------------------
(* tool_stats/{toolId}/{action}: the transaction of trackToolInteraction, run by
   independent callers (trackers of different sessions or tabs) on one path *)

Callers == 1..MaxCallers

(* current => (current || 0) + 1 *)
transactionUpdate(current) == (IF current = Absent THEN 0 ELSE current) + 1

IdleTxn == [pc |-> "idle", seen |-> Absent, tries |-> 0]

InitCounter ==
    /\ toolStat = Absent
    /\ txn = [c \in Callers |-> IdleTxn]
    /\ dailyPage = Absent
    /\ pageTxn = [c \in Callers |-> IdleTxn]

(* A caller's trackToolInteraction reaches transaction(): the update function is
   run on the value the client holds for the path (nothing, or the value the
   store has at this moment) and the result is sent for an optimistic commit. *)
txnBegin(c) ==
    /\ txn[c].pc = "idle"
    /\ \E cached \in {Absent, toolStat} :
          txn' = [txn EXCEPT ![c] = [pc |-> "sent", seen |-> cached, tries |-> 1]]
    /\ UNCHANGED toolStat
    /\ UNCHANGED <<trackerVars, bucketVars, viewerVars, pageVars, browserVars, guardVars>>

(* a plain write of the computed value: the store does not compare *)
txnCommitBlind(c) ==
    /\ txn[c].pc = "sent"
    /\ toolStat' = transactionUpdate(txn[c].seen)
    /\ txn' = [txn EXCEPT ![c].pc = "done"]
    /\ UNCHANGED <<trackerVars, bucketVars, viewerVars, pageVars, browserVars, guardVars>>

(* The store accepts the commit: the path still holds the value the update
   function was run on. *)
txnCommit(c) ==
    /\ txn[c].pc = "sent"
    /\ txn[c].seen = toolStat
    /\ toolStat' = transactionUpdate(txn[c].seen)
    /\ txn' = [txn EXCEPT ![c].pc = "done"]
    /\ UNCHANGED <<trackerVars, bucketVars, viewerVars, pageVars, browserVars, guardVars>>

(* The store rejects the commit (the path holds another value) and hands out the
   current one: the client runs the update function again on it. *)
txnRetry(c) ==
    /\ txn[c].pc = "sent"
    /\ txn[c].seen # toolStat
    /\ txn' = [txn EXCEPT ![c].seen = toolStat, ![c].tries = @ + 1]
    /\ UNCHANGED toolStat
    /\ UNCHANGED <<trackerVars, bucketVars, viewerVars, pageVars, browserVars, guardVars>>

(* daily_pages/{dateKey}/{pageKey}: the transaction of trackPageView, run by the
   trackers of independent sessions viewing the same path on the same day *)

(* the update function stores 1 whatever the path holds *)
pageCountUpdateReset(current) == 1

(* current => (current || 0) + 1 *)
pageCountUpdate(current) == (IF current = Absent THEN 0 ELSE current) + 1

(* A session's trackPageView reaches transaction() (its two awaited writes are
   done): the update function is run on the value the client holds for the path
   and the result is sent for an optimistic commit. *)
pageTxnBegin(c) ==
    /\ pageTxn[c].pc = "idle"
    /\ \E cached \in {Absent, dailyPage} :
          pageTxn' = [pageTxn EXCEPT ![c] = [pc |-> "sent", seen |-> cached, tries |-> 1]]
    /\ UNCHANGED dailyPage
    /\ UNCHANGED <<trackerVars, bucketVars, viewerVars, statVars, browserVars, guardVars>>

(* the store accepts the commit: the path still holds the value the update
   function was run on *)
pageTxnCommit(c) ==
    /\ pageTxn[c].pc = "sent"
    /\ pageTxn[c].seen = dailyPage
    /\ dailyPage' = pageCountUpdate(pageTxn[c].seen)
    /\ pageTxn' = [pageTxn EXCEPT ![c].pc = "done"]
    /\ UNCHANGED <<trackerVars, bucketVars, viewerVars, statVars, browserVars, guardVars>>

(* the store rejects the commit and hands out the current value: the client runs
   the update function again on it *)
pageTxnRetry(c) ==
    /\ pageTxn[c].pc = "sent"
    /\ pageTxn[c].seen # dailyPage
    /\ pageTxn' = [pageTxn EXCEPT ![c].seen = dailyPage, ![c].tries = @ + 1]
    /\ UNCHANGED dailyPage
    /\ UNCHANGED <<trackerVars, bucketVars, viewerVars, statVars, browserVars, guardVars>>

NextCounter ==
    \/ \E c \in Callers : txnBegin(c)
    \/ \E c \in Callers : txnCommit(c)
    \/ \E c \in Callers : txnRetry(c)
    \/ \E c \in Callers : pageTxnBegin(c)
    \/ \E c \in Callers : pageTxnCommit(c)
    \/ \E c \in Callers : pageTxnRetry(c)

----------------------------------------------------------------------------
(* One browser: page loads in several tabs, each constructing an
   AnalyticsTracker; the trackers share the browser's local storage and write
   the session paths of the store.  The transactions on daily_pages and
   stats/session_durations touch none of these paths and are left out. *)

Tabs == 1..MaxTabs
SessionIds == 1..MaxTabs
Seqs == 1..MaxPageViews

(* a tab that has not read the item dtz_session_id *)
Unread == 0 - 2

NoTracker == [sessionId |-> Absent, pageViews |-> 0, lifecycle |-> "New",
              startApplied |-> FALSE, seen |-> Unread]

NoRecord == [status |-> "none", page_views |-> Absent]

EmptyRtdb == [sessions |-> [id \in SessionIds |-> NoRecord],
              page_views |-> [id \in SessionIds |-> [seq \in Seqs |-> 0]],
              active_sessions |-> [id \in SessionIds |-> FALSE],
              daily_users |-> FALSE]

InitBrowser ==
    /\ localStorage = Absent
    /\ trackers = [t \in Tabs |-> NoTracker]
    /\ tabOps = {}
    /\ rtdb = EmptyRtdb
    /\ tabFailures = 0

(* FirebaseUtils.generateSessionId in tab t begins: localStorage.getItem.  The
   tabs of a browser run in parallel and local storage has no lock: between
   this read and the setItem that may follow, another tab can read or write the
   item. *)
getStoredSessionId(t) ==
    /\ trackers[t].lifecycle = "New"
    /\ trackers[t].seen = Unread
    /\ trackers' = [trackers EXCEPT ![t].seen = localStorage]
    /\ UNCHANGED <<localStorage, tabOps, rtdb, tabFailures>>
    /\ UNCHANGED <<trackerVars, bucketVars, viewerVars, counterVars, guardVars>>

(* What FirebaseUtils.generateSessionId returns in tab t: the id it read if there
   was one, else a fresh one (the tab's number stands for it). *)
generateSessionId(t) == IF trackers[t].seen = Absent THEN t ELSE trackers[t].seen

TabOp(t, name, step, n) == [tab |-> t, op |-> name, step |-> step, n |-> n]

(* Awaited writes to the session paths of each asynchronous method. *)
TabSteps(name) ==
    CASE name = "startSession" -> 3
      [] OTHER -> 2

(* a session record that starts without its first page view *)
sessionDataNoPageView == [status |-> "active", page_views |-> 0]

(* The fields of the record startSession sets that the store paths above keep. *)
sessionData == [status |-> "active", page_views |-> 1]

(* The effect of the write of o's current step; id: the session id of o's tracker.
   page_views/{id}/{seq} counts the set() calls applied to the path. *)
ApplyTabWrite(o, id, db) ==
    CASE o.op = "startSession" /\ o.step = 1 ->
            [db EXCEPT !.sessions[id] = sessionData]
      [] o.op = "startSession" /\ o.step = 2 -> [db EXCEPT !.daily_users = TRUE]
      [] o.op = "startSession" /\ o.step = 3 -> [db EXCEPT !.active_sessions[id] = TRUE]
      [] o.op = "pageView" /\ o.step = 1 -> [db EXCEPT !.page_views[id][o.n] = @ + 1]
      [] o.op = "pageView" /\ o.step = 2 -> [db EXCEPT !.sessions[id].page_views = o.n]
      [] o.op = "end" /\ o.step = 1 ->
            [db EXCEPT !.sessions[id].status = "ended", !.sessions[id].page_views = o.n]
      [] o.op = "end" /\ o.step = 2 -> [db EXCEPT !.active_sessions[id] = FALSE]

(* A page is loaded in tab t: new AnalyticsTracker(), init() from the return of
   getItem (a fresh id is persisted with setItem) up to the first awaits of
   startSession and trackPageView. *)
pageLoad(t) ==
    /\ trackers[t].lifecycle = "New"
    /\ trackers[t].seen # Unread
    /\ localStorage' = IF trackers[t].seen = Absent THEN generateSessionId(t) ELSE localStorage
    /\ trackers' = [trackers EXCEPT ![t] = [sessionId |-> generateSessionId(t), pageViews |-> 1,
                                            lifecycle |-> "Active", startApplied |-> FALSE,
                                            seen |-> trackers[t].seen]]
    /\ tabOps' = tabOps \cup {TabOp(t, "startSession", 1, 1), TabOp(t, "pageView", 1, 1)}
    /\ UNCHANGED <<rtdb, tabFailures>>
    /\ UNCHANGED <<trackerVars, bucketVars, viewerVars, counterVars, guardVars>>

(* trackPageView of the tracker in tab t (no check of the lifecycle).  The calls
   are bounded: none once a tracker has counted MaxPageViews page views. *)
trackPageViewInTab(t) ==
    /\ trackers[t].lifecycle # "New"
    /\ \A u \in Tabs : trackers[u].pageViews < MaxPageViews
    /\ trackers' = [trackers EXCEPT ![t].pageViews = @ + 1]
    /\ tabOps' = tabOps \cup {TabOp(t, "pageView", 1, trackers[t].pageViews + 1)}
    /\ UNCHANGED <<localStorage, rtdb, tabFailures>>
    /\ UNCHANGED <<trackerVars, bucketVars, viewerVars, counterVars, guardVars>>

(* The beforeunload signal reaches the page in tab t (once in these runs):
   endSession up to its first await. *)
endSessionInTab(t) ==
    /\ trackers[t].lifecycle = "Active"
    /\ trackers' = [trackers EXCEPT ![t].lifecycle = "Ended"]
    /\ tabOps' = tabOps \cup {TabOp(t, "end", 1, trackers[t].pageViews)}
    /\ UNCHANGED <<localStorage, rtdb, tabFailures>>
    /\ UNCHANGED <<trackerVars, bucketVars, viewerVars, counterVars, guardVars>>

tabWriteSucceeds(o) ==
    /\ o \in tabOps
    /\ rtdb' = ApplyTabWrite(o, trackers[o.tab].sessionId, rtdb)
    /\ IF o.step = TabSteps(o.op)
         THEN tabOps' = tabOps \ {o}
         ELSE tabOps' = (tabOps \ {o}) \cup
                 {TabOp(o.tab, o.op, o.step + 1,
                        \* the session update reads this.pageViews now
                        IF o.op = "pageView" THEN trackers[o.tab].pageViews ELSE o.n)}
    /\ trackers' = IF o.op = "startSession" /\ o.step = 3
                     THEN [trackers EXCEPT ![o.tab].startApplied = TRUE]
                     ELSE trackers
    /\ UNCHANGED <<localStorage, tabFailures>>
    /\ UNCHANGED <<trackerVars, bucketVars, viewerVars, counterVars, guardVars>>

tabWriteFails(o) ==
    /\ o \in tabOps
    /\ tabFailures < MaxFailures
    /\ tabFailures' = tabFailures + 1
    /\ tabOps' = tabOps \ {o}
    /\ UNCHANGED <<localStorage, trackers, rtdb>>
    /\ UNCHANGED <<trackerVars, bucketVars, viewerVars, counterVars, guardVars>>

NextBrowser ==
    \/ \E t \in Tabs : getStoredSessionId(t)
    \/ \E t \in Tabs : pageLoad(t)
    \/ \E t \in Tabs : trackPageViewInTab(t)
    \/ \E t \in Tabs : endSessionInTab(t)
    \/ \E o \in tabOps : tabWriteSucceeds(o)
    \/ \E o \in tabOps : tabWriteFails(o)

----------------------------------------------------------------------------
(* AuthGuard on a page of the admin area: Firebase Auth with its current user,
   the admins collection, the guard made when the module is loaded and the one
   made by AuthGuard.checkAccess(). *)

Uids == {"a", "b"}
GuardIds == 1..MaxGuards

NoAdminDoc == [exists |-> FALSE, role |-> "", status |-> ""]

AdminDocKinds ==
    {NoAdminDoc,
     [exists |-> TRUE, role |-> "admin", status |-> "active"],
     [exists |-> TRUE, role |-> "superadmin", status |-> "active"],
     [exists |-> TRUE, role |-> "editor", status |-> "active"],
     [exists |-> TRUE, role |-> "admin", status |-> "suspended"]}

(* the uid of the stored admin_session item *)
SessionUid == "a"

(* this.requiredRoles *)
requiredRoles == {"admin", "superadmin"}

(* What checkAdminRole resolves to for the document admins/{uid}; lookupOk is
   FALSE when the get fails (the catch block).  updateLastLogin and
   createAdminSession catch their own errors. *)
checkAdminRole(doc, lookupOk) ==
    IF ~lookupOk THEN FALSE
    ELSE IF ~doc.exists THEN FALSE
    ELSE IF doc.role \notin requiredRoles THEN FALSE
    ELSE IF doc.status # "active" THEN FALSE
    ELSE TRUE

(* FirebaseUtils.checkAdminAccess(userId): what it resolves to for the document
   admins/{userId}; lookupOk is FALSE when db is not set or the get fails. *)
FirebaseUtils_checkAdminAccess(doc, lookupOk) ==
    IF ~lookupOk THEN FALSE
    ELSE doc.exists /\ doc.role = "admin"

(* GoogleAuth.checkAdminAccess(uid): what it resolves to for the document
   admins/{uid}.  updateAdminLogin and logAdminLogin catch their own errors. *)
GoogleAuth_checkAdminAccess(doc, lookupOk) ==
    IF ~lookupOk THEN FALSE
    ELSE IF ~doc.exists THEN FALSE
    ELSE IF doc.role # "admin" /\ doc.role # "superadmin" THEN FALSE
    ELSE IF doc.status # "active" THEN FALSE
    ELSE TRUE

(* The three checks, and the admins/{uid} documents they may meet: none, or one
   with any role and status, either of which may be missing. *)
Checks == {"FirebaseUtils", "AuthGuard", "GoogleAuth"}

AdminRecords ==
    {NoAdminDoc} \cup
    {[exists |-> TRUE, role |-> r, status |-> st] :
        r \in {"admin", "superadmin", "editor", ""}, st \in {"active", "suspended", ""}}

CheckResult(check, doc, lookupOk) ==
    CASE check = "FirebaseUtils" -> FirebaseUtils_checkAdminAccess(doc, lookupOk)
      [] check = "AuthGuard" -> checkAdminRole(doc, lookupOk)
      [] check = "GoogleAuth" -> GoogleAuth_checkAdminAccess(doc, lookupOk)

NoVerdict == [called |-> FALSE, uid |-> "none", lookupOk |-> FALSE, value |-> FALSE]

NoGuard == [made |-> FALSE, currentUser |-> "none", isAdmin |-> FALSE, listening |-> FALSE,
            seen |-> "unknown", restoring |-> FALSE]

(* new AuthGuard() with the session item as given: the constructor's fields,
   then init() up to its await: on an admin page the auth listener is set up and
   a live stored session is being restored. *)
NewGuard(onAdminPage, session) ==
    [made |-> TRUE, currentUser |-> "none", isAdmin |-> FALSE, listening |-> onAdminPage,
     seen |-> "unknown", restoring |-> onAdminPage /\ session = "live"]

NoPage == [shown |-> FALSE, redirecting |-> FALSE, left |-> FALSE, grants |-> 0,
           grantedTo |-> "none"]

(* window.location.href = '/admin/admin.html' *)
redirectToLogin(pg) == [pg EXCEPT !.redirecting = TRUE]

(* showAdminInterface for the user of the role check *)
grantAccess(pg, uid) == [pg EXCEPT !.shown = TRUE, !.grants = @ + 1, !.grantedTo = uid]

(* the page and the session item after checkExistingSession found the item as
   given: an expired one is removed and the guard redirects *)
AfterSessionCheck(pg, onAdminPage, session) ==
    IF onAdminPage /\ session = "expired"
      THEN [page |-> redirectToLogin(pg), session |-> "none"]
      ELSE [page |-> pg, session |-> session]

(* The module was loaded: const authGuard = new AuthGuard(). *)
InitGuard ==
    /\ adminPage \in BOOLEAN
    /\ adminDocs \in [Uids -> AdminDocKinds]
    /\ authUser \in Uids \cup {"none"}
    /\ authChanges = 0
    /\ \E session \in {"none", "live", "expired"} :
         /\ guards = [g \in GuardIds |-> IF g = 1 THEN NewGuard(adminPage, session) ELSE NoGuard]
         /\ page = AfterSessionCheck(NoPage, adminPage, session).page
         /\ storedSession = AfterSessionCheck(NoPage, adminPage, session).session
    /\ roleChecks = EmptyBag
    /\ accessAnswer = [resolved |-> FALSE, value |-> FALSE]
    /\ verdicts = [c \in Checks |-> NoVerdict]

InitGuardIdle ==
    /\ adminPage = FALSE
    /\ adminDocs = [u \in Uids |-> NoAdminDoc]
    /\ authUser = "none"
    /\ authChanges = 0
    /\ guards = [g \in GuardIds |-> NoGuard]
    /\ page = NoPage
    /\ storedSession = "none"
    /\ roleChecks = EmptyBag
    /\ accessAnswer = [resolved |-> FALSE, value |-> FALSE]
    /\ verdicts = [c \in Checks |-> NoVerdict]

(* The user of Firebase Auth changes: a sign-in or sign-out, in this tab or in
   another tab of the browser. *)
authStateChange(user) ==
    /\ ~page.left
    /\ authChanges < MaxAuthChanges
    /\ user # authUser
    /\ authUser' = user
    /\ authChanges' = authChanges + 1
    /\ UNCHANGED <<adminPage, adminDocs, guards, roleChecks, page, accessAnswer, storedSession>>
    /\ UNCHANGED <<trackerVars, bucketVars, viewerVars, counterVars, browserVars, verdicts>>

(* The listener of guard g is called with the user of Firebase Auth (on
   registration and after every change): this.currentUser = user; with a user
   the callback suspends at await checkAdminRole(user.uid), without one it
   redirects. *)
onAuthStateChanged(g) ==
    /\ ~page.left
    /\ guards[g].listening
    /\ guards[g].seen # authUser
    /\ guards' = [guards EXCEPT ![g].currentUser = authUser, ![g].seen = authUser]
    /\ IF authUser = "none"
         THEN /\ page' = redirectToLogin(page)
              /\ UNCHANGED roleChecks
         ELSE /\ roleChecks' = roleChecks (+) SetToBag({[guard |-> g, uid |-> authUser]})
              /\ UNCHANGED page
    /\ UNCHANGED <<adminPage, adminDocs, authUser, authChanges, accessAnswer, storedSession>>
    /\ UNCHANGED <<trackerVars, bucketVars, viewerVars, counterVars, browserVars, verdicts>>

(* checkAdminRole of a suspended callback resolves: this.isAdmin is assigned,
   and the callback grants access to its user or redirects.  A passed check has
   stored the admin_session item (createAdminSession). *)
roleCheckReturns(c, lookupOk) ==
    /\ ~page.left
    /\ BagIn(c, roleChecks)
    /\ roleChecks' = roleChecks (-) SetToBag({c})
    /\ LET passed == checkAdminRole(adminDocs[c.uid], lookupOk) IN
         /\ guards' = [guards EXCEPT ![c.guard].isAdmin = passed]
         /\ page' = IF passed THEN grantAccess(page, c.uid) ELSE redirectToLogin(page)
         /\ storedSession' = IF passed THEN "live" ELSE storedSession
    /\ UNCHANGED <<adminPage, adminDocs, authUser, authChanges, accessAnswer>>
    /\ UNCHANGED <<trackerVars, bucketVars, viewerVars, counterVars, browserVars, verdicts>>

(* checkExistingSession after its await: signInWithCustomToken(sessionData.token)
   resolved (this.currentUser is the user of the credential, who is now the user
   of Firebase Auth) or rejected (the item is removed and the guard redirects). *)
sessionRestoreReturns(g, user) ==
    /\ ~page.left
    /\ guards[g].restoring
    /\ IF user # "none"
         THEN /\ guards' = [guards EXCEPT ![g].restoring = FALSE, ![g].currentUser = user]
              /\ authUser' = user
              /\ UNCHANGED <<page, storedSession>>
         ELSE /\ guards' = [guards EXCEPT ![g].restoring = FALSE]
              /\ page' = redirectToLogin(page)
              /\ storedSession' = "none"
              /\ UNCHANGED authUser
    /\ UNCHANGED <<adminPage, adminDocs, authChanges, roleChecks, accessAnswer>>
    /\ UNCHANGED <<trackerVars, bucketVars, viewerVars, counterVars, browserVars, verdicts>>

(* the navigation started by a redirect completes: the page is gone *)
leavePage ==
    /\ page.redirecting
    /\ ~page.left
    /\ page' = [page EXCEPT !.left = TRUE]
    /\ UNCHANGED <<adminPage, adminDocs, authUser, authChanges, guards, roleChecks, accessAnswer,
                   storedSession>>
    /\ UNCHANGED <<trackerVars, bucketVars, viewerVars, counterVars, browserVars, verdicts>>

(* static async checkAccess(): const guard = new AuthGuard(); return guard.isAdmin *)
checkAccess ==
    /\ ~page.left
    /\ ~accessAnswer.resolved
    /\ ~guards[MaxGuards].made
    /\ LET guard == NewGuard(adminPage, storedSession)
           after == AfterSessionCheck(page, adminPage, storedSession) IN
         /\ guards' = [guards EXCEPT ![MaxGuards] = guard]
         /\ page' = after.page
         /\ storedSession' = after.session
         /\ accessAnswer' = [resolved |-> TRUE, value |-> guard.isAdmin]
    /\ UNCHANGED <<adminPage, adminDocs, authUser, authChanges, roleChecks>>
    /\ UNCHANGED <<trackerVars, bucketVars, viewerVars, counterVars, browserVars, verdicts>>

(* One of the checks is called for uid and resolves. *)
checkEligibility(check, uid, lookupOk) ==
    /\ ~verdicts[check].called
    /\ verdicts' = [verdicts EXCEPT
                       ![check] = [called |-> TRUE, uid |-> uid, lookupOk |-> lookupOk,
                                   value |-> CheckResult(check, adminDocs[uid], lookupOk)]]
    /\ UNCHANGED <<adminPage, adminDocs, authUser, authChanges, guards, roleChecks, page,
                   accessAnswer, storedSession>>
    /\ UNCHANGED <<trackerVars, bucketVars, viewerVars, counterVars, browserVars>>

InitEligibility ==
    /\ adminPage = FALSE
    /\ adminDocs \in [Uids -> AdminRecords]
    /\ authUser = "none"
    /\ authChanges = 0
    /\ guards = [g \in GuardIds |-> NoGuard]
    /\ page = NoPage
    /\ storedSession = "none"
    /\ roleChecks = EmptyBag
    /\ accessAnswer = [resolved |-> FALSE, value |-> FALSE]
    /\ verdicts = [c \in Checks |-> NoVerdict]

NextEligibility ==
    \E check \in Checks, uid \in Uids, lookupOk \in BOOLEAN :
        checkEligibility(check, uid, lookupOk)

NextGuard ==
    \/ \E user \in Uids \cup {"none"} : authStateChange(user)
    \/ \E g \in GuardIds : onAuthStateChanged(g)
    \/ \E c \in BagToSet(roleChecks), lookupOk \in BOOLEAN : roleCheckReturns(c, lookupOk)
    \/ \E g \in GuardIds, user \in {SessionUid, "none"} : sessionRestoreReturns(g, user)
    \/ leavePage
    \/ checkAccess

----------------------------------------------------------------------------
(* Specifications *)

InitBucketIdle == bucketIn = Absent /\ bucketOut = ""

InitOthers == InitCounter /\ InitBrowser /\ InitGuardIdle

(* The session tracker on a page. *)
Init == InitTracker /\ InitBucketIdle /\ InitViewerIdle /\ InitOthers
Next == NextTracker
Spec == Init /\ [][Next]_vars

(* The viewer page, for every kind of tool definition. *)
InitViewerPage ==
    InitTracker /\ InitBucketIdle /\ InitViewer(BOOLEAN, BOOLEAN, ViewerDocs) /\ InitOthers
SpecViewer == InitViewerPage /\ [][NextViewerPage]_vars

(* The viewer page, for eligible tool definitions of every name. *)
InitShell == InitTracker /\ InitBucketIdle /\ InitViewer({TRUE}, {TRUE}, ShellDocs) /\ InitOthers
SpecShell == InitShell /\ [][NextViewer]_vars

(* getDurationBucket applied to a drawn duration. *)
InitBucket ==
    InitTracker /\ InitViewerIdle /\ bucketIn \in DurationInputs /\ bucketOut = "" /\ InitOthers
NextBucket == classifyDuration
SpecBucket == InitBucket /\ [][NextBucket]_vars

(* Independent callers incrementing one tool_stats counter. *)
InitCallers ==
    InitTracker /\ InitBucketIdle /\ InitViewerIdle /\ InitCounter /\ InitBrowser /\ InitGuardIdle
SpecCounter == InitCallers /\ [][NextCounter]_vars

(* A tool-viewing page: the tracker and the viewer, all their telemetry writes;
   one external event fewer is delivered than the bound allows. *)
TelemetryDocs ==
    {d \in ViewerDocs : /\ d.exists /\ d.enabled /\ d.type = "hosted" /\ d.hostedHtml = "plain"
                        /\ d.hostedCss = "" /\ d.hostedJs = "" /\ d.name = <<"l">>
                        /\ d.description = <<>> /\ ~d.showHeader}
InitTelemetry ==
    InitTracker /\ InitBucketIdle /\ InitViewer({TRUE}, {TRUE}, TelemetryDocs) /\ InitOthers
FewerCalls == calls + 1 < MaxCalls
NextTelemetry ==
    \/ FewerCalls /\ trackPageView
    \/ FewerCalls /\ trackToolInteraction
    \/ FewerCalls /\ endSession
    \/ FewerCalls /\ activitySignal
    \/ FewerCalls /\ \E hidden \in BOOLEAN : visibilityChange(hidden)
    \/ TimersAndWrites
    \/ NextViewer
SpecTelemetry == InitTelemetry /\ [][NextTelemetry]_vars

(* The operations that write aggregate counters, of the tracker, the viewer and
   the tools list, and the completion of their writes. *)
NextAggregates ==
    \/ trackPageView
    \/ trackToolInteraction
    \/ trackToolClick
    \/ endSession
    \/ \E o \in BagToSet(ops) : writeSucceeds(o)
    \/ \E o \in BagToSet(ops) : writeFails(o)
    \/ NextViewer
SpecAggregates == InitTelemetry /\ [][NextAggregates]_vars

(* The viewer page for every kind of tool definition, with the writes of the
   page completing, on a store that earlier loads of the tool have left: each
   of them added one to tool_views/{toolId}/total and one to a date's
   daily_views entry. *)
PriorStores ==
    {[EmptyStore EXCEPT !.tool_views = SumOver(f, Dates), !.daily_views = f] :
        f \in [Dates -> 0..MaxPriorViews]}
InitViews ==
    /\ \E prior \in PriorStores : InitTrackerOn(prior)
    /\ InitBucketIdle
    /\ InitViewer({TRUE}, BOOLEAN, ViewerDocs)
    /\ InitOthers
NextViews ==
    \/ NextViewer
    \/ \E o \in BagToSet(ops) : writeSucceeds(o)
    \/ \E o \in BagToSet(ops) : writeFails(o)
SpecViews == InitViews /\ [][NextViews]_vars

(* The viewer page of an eligible tool together with the viewers of the same
   tool on other pages: each of those reports its view by the same update,
   issued on the day of this page's load or late on the day before. *)
viewReportedElsewhere(date) ==
    /\ store.tool_views + InFlight < MaxViews
    /\ ops' = ops (+) SetToBag({Op("toolView", 1, now + (date - DateKey(now)) * MsPerDay, 0,
                                   Ended)})
    /\ UNCHANGED <<now, calls, failures, sessionStart, pageViews, lastActivity,
                   activityTimeout, heartbeatInterval, store, history, activityLog>>
    /\ UNCHANGED <<bucketVars, viewerVars, counterVars, browserVars, guardVars>>

InitViewers ==
    /\ \E prior \in PriorStores : InitTrackerOn(prior)
    /\ InitBucketIdle
    /\ InitViewer({TRUE}, {TRUE}, TelemetryDocs)
    /\ InitOthers
NextViewers ==
    \/ NextViewer
    \/ \E date \in Dates : viewReportedElsewhere(date)
    \/ \E o \in BagToSet(ops) : writeSucceeds(o)
    \/ \E o \in BagToSet(ops) : writeFails(o)
SpecViewers == InitViewers /\ [][NextViewers]_vars

(* The session of the tracker from its start to its end. *)
SpecSession == Init /\ [][NextSession]_vars

(* The activity listeners of the tracker. *)
SpecActivity == Init /\ [][NextActivity]_vars

(* The page loads of one browser. *)
InitTabs ==
    InitTracker /\ InitBucketIdle /\ InitViewerIdle /\ InitBrowser /\ InitCounter /\ InitGuardIdle
SpecBrowser == InitTabs /\ [][NextBrowser]_vars

(* The three admin-eligibility checks applied to the documents of the admins
   collection. *)
InitChecks ==
    InitTracker /\ InitBucketIdle /\ InitViewerIdle /\ InitCounter /\ InitBrowser
        /\ InitEligibility
SpecChecks == InitChecks /\ [][NextEligibility]_vars

(* A page of the admin area with its guard. *)
InitAdmin ==
    InitTracker /\ InitBucketIdle /\ InitViewerIdle /\ InitCounter /\ InitBrowser /\ InitGuard
SpecGuard == InitAdmin /\ [][NextGuard]_vars

----------------------------------------------------------------------------
(* Properties of the session tracker *)

InFlightOps == BagToSet(ops)

(* C1: after endSession has been called, trackPageView, trackToolInteraction and
   the activity listeners (debounced input signal, visibility change) issue no
   remote write: no such operation invoked or fired in Ended awaits a write. *)
C1_NoWriteFromActiveOnlyOpAfterEnded ==
    \A o \in InFlightOps : o.op \in {"pageView", "tool", "activity"} => ~o.late

(* C2: a second endSession call on an Ended tracker is a no-op: it issues no
   write, and the session adds exactly 1 in total to the duration histogram. *)
C2_SecondEndIsNoOp ==
    /\ \A o \in InFlightOps : o.op = "end" => ~o.late
    /\ SumOver(store.session_durations, Buckets) <= 1

(* C3: once the tracker is Ended no heartbeat write is issued any more; at the
   latest none is issued later than one heartbeat period after endSession. *)
C3_NoHeartbeatAfterEnded ==
    \A o \in InFlightOps :
        (o.op = "heartbeat" /\ endTime # Absent) => o.ts <= endTime + HeartbeatPeriod

(* C4: while the tracker is Active a heartbeat write is issued at least once in
   every heartbeat period, whatever the state of the writes issued before: the
   last heartbeat is never older than one period, and the next one is scheduled
   within one period of it. *)
C4_HeartbeatEveryPeriodWhileActive ==
    lifecycle = "Active" =>
        /\ now - hbLast <= HeartbeatPeriod
        /\ heartbeatInterval # Absent
        /\ heartbeatInterval <= hbLast + HeartbeatPeriod

(* C4 witness: Active, a second heartbeat was issued while the first one is still
   awaited and another write has failed. *)
C4_Witness ==
    /\ lifecycle = "Active"
    /\ hbLast = sessionStart + 2 * HeartbeatPeriod
    /\ failures > 0
    /\ \E o \in InFlightOps : o.op = "heartbeat" /\ o.ts < hbLast

(* C5: the local page-view counter, and the page_views value an endSession call
   writes, equal the number of trackPageView calls made before endSession. *)
C5_PageViewsEqualCallsBeforeEnd ==
    /\ pageViews = pvBeforeEnd
    /\ \A o \in InFlightOps : (o.op = "end" /\ o.step = 1) => o.n = pvBeforeEnd

----------------------------------------------------------------------------
(* Properties of getDurationBucket *)

(* The buckets as half-open intervals [lo, hi) of whole seconds; hi = Absent: no
   upper bound. *)
BucketTable ==
    { <<"0-10s", Absent, 10>>, <<"10-30s", 10, 30>>, <<"30-60s", 30, 60>>,
      <<"1-5m", 60, 300>>, <<"5-10m", 300, 600>>, <<"10-30m", 600, 1800>>,
      <<"30-60m", 1800, 3600>>, <<"60m+", 3600, Absent>> }

RowsHolding(sec) ==
    {r \in BucketTable : (r[2] = Absent \/ r[2] <= sec) /\ (r[3] = Absent \/ sec < r[3])}

(* C6: getDurationBucket puts every duration into exactly one bucket, the one whose
   lower-inclusive, upper-exclusive bounds hold its whole seconds; 5 s, 10 s, 45 s
   and 7200 s fall into "0-10s", "10-30s", "30-60s" and "60m+". *)
C6_BucketIsTheHalfOpenInterval ==
    bucketOut # "" =>
        /\ Cardinality(RowsHolding(bucketIn \div MsPerSecond)) = 1
        /\ \E r \in RowsHolding(bucketIn \div MsPerSecond) : r[1] = bucketOut
        /\ bucketIn = 5 * MsPerSecond => bucketOut = "0-10s"
        /\ bucketIn = 10 * MsPerSecond => bucketOut = "10-30s"
        /\ bucketIn = 45 * MsPerSecond => bucketOut = "30-60s"
        /\ bucketIn = 7200 * MsPerSecond => bucketOut = "60m+"

(* C6 witness: a duration on a bucket's lower bound has been classified. *)
C6_Witness == bucketIn = 10 * MsPerSecond /\ bucketOut = "10-30s"

----------------------------------------------------------------------------
(* Properties of the tool viewer *)

(* C7: whenever tool-authored script runs inside the iframe, window.parent,
   window.top and window.opener already yield null there, never the host page. *)
C7_UpwardRefsNeutralWhenToolScriptRuns == toolReads \subseteq {"null"}

TextKinds == {"title", "h1", "p"}

(* A character reference starts at position i of t. *)
ReferenceAt(t, i) ==
    \E ref \in {<<"&", "l", "t", ";">>, <<"&", "g", "t", ";">>, <<"&", "a", "m", "p", ";">>} :
        /\ i + Len(ref) - 1 <= Len(t)
        /\ SubSeq(t, i, i + Len(ref) - 1) = ref

(* t holds no markup delimiter of its own: no "<", no ">", and "&" only at the
   start of a character reference. *)
NoMarkupDelimiter(t) ==
    \A i \in 1..Len(t) :
        /\ t[i] \notin {"<", ">"}
        /\ t[i] = "&" => ReferenceAt(t, i)

(* The text the HTML parser makes of t in a text node: character references
   replaced by their characters. *)
RECURSIVE ParsedText(_)
ParsedText(t) ==
    IF t = <<>> THEN <<>>
    ELSE IF Len(t) >= 4 /\ SubSeq(t, 1, 4) = <<"&", "l", "t", ";">>
           THEN <<"<">> \o ParsedText(SubSeq(t, 5, Len(t)))
    ELSE IF Len(t) >= 4 /\ SubSeq(t, 1, 4) = <<"&", "g", "t", ";">>
           THEN <<">">> \o ParsedText(SubSeq(t, 5, Len(t)))
    ELSE IF Len(t) >= 5 /\ SubSeq(t, 1, 5) = <<"&", "a", "m", "p", ";">>
           THEN <<"&">> \o ParsedText(SubSeq(t, 6, Len(t)))
    ELSE <<Head(t)>> \o ParsedText(Tail(t))

(* C8: in the composed shell the title and the header carry the tool's name and
   description in escaped form: no markup delimiter of their own, and parsed as
   text they read as the name (title, h1) and the description (p); the header is
   there whenever it is to be shown. *)
C8_HeaderTextIsEscaped ==
    frameDoc # <<>> =>
        /\ \A i \in 1..Len(frameDoc) :
              frameDoc[i].kind \in TextKinds =>
                  /\ NoMarkupDelimiter(frameDoc[i].text)
                  /\ ParsedText(frameDoc[i].text) =
                        (IF frameDoc[i].kind = "p" THEN toolDoc.description ELSE toolDoc.name)
        /\ frameDoc[1].kind = "title"
        /\ toolDoc.showHeader => \E i \in 1..Len(frameDoc) : frameDoc[i].kind = "h1"
        /\ (toolDoc.showHeader /\ toolDoc.description # <<>>)
              => \E i \in 1..Len(frameDoc) : frameDoc[i].kind = "p"

(* C8 witness: a shell was composed, with its header, for a name that itself
   spells a character reference next to a delimiter and a description holding
   markup. *)
C8_Witness ==
    /\ frameDoc # <<>>
    /\ toolDoc.name = <<"&", "l", "t", ";">>
    /\ toolDoc.description = <<"<", "l", ">">>
    /\ \E i \in 1..Len(frameDoc) : frameDoc[i].kind = "p"

(* The failure kinds in the order the claim gives them. *)
ClaimedKind(doc) ==
    CASE ~doc.exists -> "NotFound"
      [] doc.exists /\ ~doc.enabled -> "Disabled"
      [] doc.exists /\ doc.enabled /\ doc.type # "hosted" -> "TypeMismatch"
      [] doc.exists /\ doc.enabled /\ doc.type = "hosted" /\ doc.hostedHtml = "" -> "PayloadMissing"
      [] OTHER -> "Eligible"

KindMessage ==
    [NotFound |-> "Tool not found",
     Disabled |-> "This tool is currently disabled",
     TypeMismatch |-> "This tool cannot be viewed in the viewer",
     PayloadMissing |-> "No HTML content available for this tool"]

FailureKinds == DOMAIN KindMessage

(* C9: once the definition has been read, resolution fails with the error of the
   first failing check in the order not found, disabled, wrong type, missing
   payload, each kind with a message of its own, and succeeds exactly for an
   enabled hosted tool with hosted HTML. *)
C9_DistinctErrorPerFailureKind ==
    (resolved # "pending" /\ errorMessage # StoreErrorMessage) =>
        /\ \A j, k \in FailureKinds : KindMessage[j] = KindMessage[k] => j = k
        /\ IF ClaimedKind(toolDoc) = "Eligible"
             THEN /\ resolved = "ok"
                  /\ \A k \in FailureKinds : errorMessage # KindMessage[k]
                  /\ toolDoc.enabled /\ toolDoc.type = "hosted" /\ toolDoc.hostedHtml # ""
             ELSE /\ resolved = "failed"
                  /\ errorMessage = KindMessage[ClaimedKind(toolDoc)]

(* C9 witness: a disabled tool that is not hosted either was resolved: Disabled. *)
C9_Witness ==
    /\ resolved = "failed"
    /\ toolDoc.exists /\ ~toolDoc.enabled /\ toolDoc.type = "external"
    /\ errorMessage = "This tool is currently disabled"

(* C10 as claimed: when resolution fails no iframe was ever created or attached. *)
C10_NoIframeWhenResolutionFails ==
    resolved = "failed" => (~iframeCreated /\ content # "iframe")

(* C10 as amended: when resolution fails nothing is loaded into the iframe that
   setupViewer created: no document is written into it, no tool script runs and
   no view is reported. *)
C10_NothingLoadedWhenResolutionFails ==
    resolved = "failed" =>
        /\ frameDoc = <<>>
        /\ parsePos = 0
        /\ toolReads = {}
        /\ viewReports = 0

(* C10 witness: resolution failed for a disabled tool; the iframe exists and is
   in the page. *)
C10_Witness ==
    /\ resolved = "failed"
    /\ errorMessage = "This tool is currently disabled"
    /\ iframeCreated
    /\ content = "iframe"

----------------------------------------------------------------------------
(* Properties of the transactional counter *)

Committed == {c \in Callers : txn[c].pc = "done"}

(* C11: when N callers each increment the same tool_stats counter through the
   transaction of trackToolInteraction, then under every interleaving of their
   commits, conflicts and retries the counter stands at the number of increments
   committed so far, and at N once all of them are: none is lost or applied twice. *)
C11_ConcurrentIncrementsSumExactly ==
    /\ toolStat = (IF Committed = {} THEN Absent ELSE Cardinality(Committed))
    /\ Committed = Callers => toolStat = MaxCallers

(* C11 witness: all callers have committed, one of them after its first attempt
   ran on nothing and was rejected, another after a conflict with a value. *)
C11_Witness ==
    /\ Committed = Callers
    /\ \E c, d \in Callers : c # d /\ txn[c].tries > 1 /\ txn[d].tries > 1

----------------------------------------------------------------------------
(* Properties of the sessions of one browser *)

(* C12: the status of sessions/{sessionId} only changes active -> ended: once
   'ended' is stored, no write makes it 'active' again, over all page loads and
   tabs that use the persisted session id. *)
C12_StatusNeverBackToActive ==
    [][\A id \in SessionIds :
          rtdb.sessions[id].status = "ended" => rtdb'.sessions[id].status # "active"]_vars

(* C13: the page_views value of sessions/{sessionId} never decreases. *)
C13_PageViewsNeverDecrease ==
    [][\A id \in SessionIds :
          rtdb'.sessions[id].page_views >= rtdb.sessions[id].page_views]_vars

(* C14: every trackPageView writes a path page_views/{sessionId}/{seq} that was
   never written before: no path has received more than one set(). *)
C14_PageViewPathsWrittenOnce ==
    \A id \in SessionIds : \A seq \in Seqs : rtdb.page_views[id][seq] <= 1

(* C17: a page load leaves its tracker Active with startSession under way; the
   first write of startSession leaves sessions/{sessionId} with status active and
   page_views 1, the second leaves the unique-visitor marker set and changes
   nothing in the store when the marker is set already, the third leaves
   stats/active_sessions/{sessionId} present. *)
C17_StartSessionWritesTheActiveSession ==
    [][/\ \A t \in Tabs :
             pageLoad(t) => /\ trackers[t].lifecycle = "New"
                            /\ trackers'[t].lifecycle = "Active"
                            /\ TabOp(t, "startSession", 1, 1) \in tabOps'
       /\ \A o \in tabOps :
             (o.op = "startSession" /\ tabWriteSucceeds(o)) =>
                 LET id == trackers[o.tab].sessionId IN
                 /\ o.step = 1 => /\ rtdb'.sessions[id].status = "active"
                                  /\ rtdb'.sessions[id].page_views = 1
                 /\ o.step = 2 => /\ rtdb'.daily_users
                                  /\ rtdb.daily_users => rtdb' = rtdb
                 /\ o.step = 3 => /\ rtdb'.active_sessions[id]
                                  /\ trackers'[o.tab].startApplied]_vars

(* C17 witness: the writes of startSession have been applied for two page loads
   of the browser (the marker has been set twice), and the session record stands
   as the later one left it. *)
C17_Witness ==
    /\ \A t \in Tabs : trackers[t].startApplied
    /\ rtdb.daily_users
    /\ \E id \in SessionIds :
          rtdb.sessions[id] = [status |-> "active", page_views |-> 1]
          /\ rtdb.active_sessions[id]

(* C19: stats/active_sessions/{sessionId} is present whenever a tracker that
   uses the id has started (its startSession writes are applied) and has not
   ended (endSession has not been called on it). *)
C19_PresenceWhileStartedAndNotEnded ==
    \A t \in Tabs :
        (trackers[t].startApplied /\ trackers[t].lifecycle = "Active")
            => rtdb.active_sessions[trackers[t].sessionId]

----------------------------------------------------------------------------
(* Properties of the activity listeners *)

LogTimes == {"debounced", "direct"}

(* C15 as claimed: at most one write of sessions/{sessionId}/last_activity is
   issued per 1-second window: whenever one is issued, the latest one issued
   before it, by whatever path, lies at least one second back. *)
C15_OneActivityWritePerWindow ==
    [][\A k \in LogTimes :
          activityLog'[k] # activityLog[k] =>
              \A j \in LogTimes :
                  activityLog[j] = Absent \/ activityLog'[k] - activityLog[j] >= DebounceDelay]_vars

(* C15 as amended: the writes of last_activity that the input listeners issue
   are debounced.  One is issued only when no input signal has arrived for one
   second (so none inside a burst), at least one second after the previous
   debounced write, once per burst (the timer is consumed), carrying the
   tracker's latest activity time; a pending timer is always the one set by the
   latest signal. *)
C15_DebouncedWritesOncePerWindow ==
    [][/\ activityLog'.writes # activityLog.writes =>
             /\ activityLog'.writes = activityLog.writes + 1
             /\ now - activityLog.signal >= DebounceDelay
             /\ activityLog.debounced = Absent \/ now - activityLog.debounced >= DebounceDelay
             /\ activityTimeout' = Absent
             /\ lastActivity >= activityLog.signal
             /\ CopiesIn(Op("activity", 1, lastActivity, 0, Ended), ops')
                   = CopiesIn(Op("activity", 1, lastActivity, 0, Ended), ops) + 1
       /\ activityLog'.signals # activityLog.signals =>
             /\ activityLog'.writes = activityLog.writes
             /\ activityTimeout' = now + DebounceDelay
       /\ activityLog'.writes <= activityLog'.signals]_vars

(* C15 witness: two input signals half a second apart have led to one write,
   issued one second after the second of them. *)
C15_Witness ==
    /\ activityLog.signals = 2
    /\ activityLog.writes = 1
    /\ activityLog.signal = PageLoadTime + TickStep
    /\ activityLog.debounced = activityLog.signal + DebounceDelay
    /\ activityTimeout = Absent

ActivityWrites(b) == {o \in BagToSet(b) : o.op = "activity"}

(* C16: a visibility change to visible issues a last_activity write at once,
   carrying the time of the change, and leaves a pending debounce timer as it is;
   a visibility change to hidden issues no last_activity write. *)
C16_VisibleWritesImmediately ==
    [][\A hidden \in BOOLEAN :
          visibilityChange(hidden) =>
              IF hidden
                THEN /\ \A o \in ActivityWrites(ops') : CopiesIn(o, ops') = CopiesIn(o, ops)
                     /\ activityLog' = activityLog
                     /\ activityTimeout' = activityTimeout
                ELSE /\ CopiesIn(Op("activity", 1, now, 0, Ended), ops')
                           = CopiesIn(Op("activity", 1, now, 0, Ended), ops) + 1
                     /\ activityLog'.direct = now
                     /\ activityTimeout' = activityTimeout]_vars

(* C16 witness: while the debounce timer of an input signal is pending, the page
   became visible and the write of that moment is under way. *)
C16_Witness ==
    /\ activityTimeout # Absent /\ now < activityTimeout
    /\ activityLog.signal < now
    /\ activityLog.direct = now
    /\ activityLog.writes = 0
    /\ \E o \in InFlightOps : o.op = "activity" /\ o.ts = now

----------------------------------------------------------------------------
(* Properties of endSession *)

(* C18: endSession called on an Active tracker issues the update of
   sessions/{sessionId}; applied, it leaves status ended, the end time, the
   duration counted from the start time and the page-view count of that moment;
   the second write leaves stats/active_sessions/{sessionId} absent; the third
   adds exactly 1 to exactly one stats/session_durations bucket, the one whose
   bounds hold the duration, and leaves every other bucket as it is. *)
C18_EndSessionWritesTheEndedSession ==
    [][/\ (endSession /\ lifecycle = "Active") =>
             /\ lifecycle' = "Ended"
             /\ CopiesIn(Op("end", 1, now, pageViews, FALSE), ops')
                   = CopiesIn(Op("end", 1, now, pageViews, FALSE), ops) + 1
       /\ \A o \in InFlightOps :
             (o.op = "end" /\ ~o.late /\ writeSucceeds(o)) =>
                 LET duration == endTime - sessionStart IN
                 /\ o.step = 1 => /\ store'.session.status = "ended"
                                  /\ store'.session.end_time = endTime
                                  /\ store'.session.duration = duration
                                  /\ store'.session.page_views = pvBeforeEnd
                 /\ o.step = 2 => ~store'.active_sessions
                 /\ o.step = 3 =>
                       \E r \in RowsHolding(duration \div MsPerSecond) :
                           store'.session_durations =
                               [store.session_durations EXCEPT ![r[1]] = @ + 1]
                 /\ o.step # 1 => store'.session = store.session]_vars

(* C18 witness: a session ended after thirty seconds and two page views has all
   three writes of endSession applied. *)
C18_Witness ==
    /\ store.session.status = "ended"
    /\ store.session.duration = HeartbeatPeriod
    /\ store.session.page_views = 2
    /\ ~store.active_sessions
    /\ store.daily_users
    /\ store.session_durations["30-60s"] = 1
    /\ SumOver(store.session_durations, Buckets) = 1

----------------------------------------------------------------------------
(* Properties of the telemetry writes *)

(* C20: a failing remote write of any tracker operation or of the viewer's view
   accounting is absorbed inside the operation: the operation ends there (its
   write is not issued again and no later write of it is issued), the store is
   left as it is, the tracker's fields and timers are left as they are, and
   nothing of the page the user sees changes. *)
C20_WriteFailureIsAbsorbed ==
    [][\A o \in InFlightOps :
          writeFails(o) =>
              /\ ops' = ops (-) SetToBag({o})
              /\ store' = store
              /\ UNCHANGED <<pageViews, lastActivity, activityTimeout, heartbeatInterval, lifecycle>>
              /\ UNCHANGED <<errorMessage, content, iframeDisplay, vpc, resolved, frameDoc>>]_vars

(* C20 witness: the tool was shown and its view reported; the write of the view
   accounting failed: it is not under way, was not applied, and the page shows
   the tool without any error. *)
C20_Witness ==
    /\ viewReports = 1
    /\ failures = 1
    /\ \A o \in InFlightOps : o.op # "toolView"
    /\ store.tool_views = 0
    /\ vpc = "done" /\ resolved = "ok"
    /\ errorMessage = "" /\ content = "iframe"

----------------------------------------------------------------------------
(* Properties of the viewer once loadTool has finished *)

(* C21: when resolving the tool definition fails (not found, disabled, wrong
   type, missing payload, or the read of the store fails), then once loadTool has
   finished the page's viewer area displays the error panel with the message of
   that failure: the panel is not replaced by the loading state or by the empty
   iframe. *)
C21_ErrorPanelShownAfterFailedResolution ==
    (vpc = "done" /\ resolved = "failed" /\ hasContainer) =>
        /\ content = "error"
        /\ errorMessage = (IF ClaimedKind(toolDoc) \in FailureKinds
                                /\ errorMessage # StoreErrorMessage
                             THEN KindMessage[ClaimedKind(toolDoc)]
                             ELSE StoreErrorMessage)

(* C22: for a tool definition that passes every eligibility check, loadTool
   writes the composed shell, with the tool's stylesheet, markup and script in
   that order, into the iframe and then reports exactly one view. *)
C22_EligibleToolIsWrittenAndViewedOnce ==
    (vpc = "done" /\ resolved = "ok") =>
        /\ frameDoc = ComposeDocument(toolDoc)
        /\ \E i, j \in DOMAIN frameDoc :
              /\ i < j
              /\ frameDoc[i].kind = "css"
              /\ frameDoc[j].kind = "html"
              /\ \A k \in DOMAIN frameDoc : frameDoc[k].kind = "js" => j < k
        /\ viewReports = 1

(* C23: for each composed tool document the iframe's document dispatches
   'tool-loaded' exactly once, when its DOMContentLoaded has fired, and the
   host's listener, in place before that, observes it. *)
C23_ReadinessSignalledOnceAndObserved ==
    /\ readiness.signals <= 1
    /\ readiness.loaded => (readiness.listening /\ readiness.signals = 1
                            /\ readiness.observed = 1)

----------------------------------------------------------------------------
(* Properties of the daily page counter *)

PageViewed == {c \in Callers : pageTxn[c].pc = "done"}

(* C24: when N sessions record a view of the same path on the same day, then
   under every interleaving of the read-modify-write steps of their transactions
   daily_pages/{date}/{path} stands at the number of views committed so far,
   and exactly N higher than at the start once all N are: no increment is lost. *)
C24_ConcurrentPageViewsSumExactly ==
    /\ dailyPage = (IF PageViewed = {} THEN Absent ELSE Cardinality(PageViewed))
    /\ PageViewed = Callers => dailyPage = MaxCallers

(* C24 witness: all sessions have committed their view, one of them only at its
   third attempt, after two conflicts with other sessions' commits. *)
C24_Witness ==
    /\ PageViewed = Callers
    /\ dailyPage = MaxCallers
    /\ \E c \in Callers : pageTxn[c].tries = 3

----------------------------------------------------------------------------
(* Properties of the aggregate counters *)

(* the aggregate counters of a store *)
CountersOf(st) ==
    [daily_pages |-> st.daily_pages,
     tool_stats |-> st.tool_stats,
     session_durations |-> SumOver(st.session_durations, Buckets),
     tool_views |-> st.tool_views,
     tool_clicks |-> st.tool_clicks]

(* the counter that the write of operation o's current step goes to, if any *)
CounterOf(o) ==
    CASE o.op = "pageView" /\ o.step = 3 -> "daily_pages"
      [] o.op = "tool" /\ o.step = 2 -> "tool_stats"
      [] o.op = "end" /\ o.step = 3 -> "session_durations"
      [] o.op = "toolView" -> "tool_views"
      [] o.op = "toolClick" -> "tool_clicks"
      [] OTHER -> "none"

(* C25: every write the code issues to an aggregate counter (daily_pages,
   tool_stats, session_durations, tool_views and daily_views, tool_clicks and
   daily_clicks) adds exactly 1 to the value the store holds, and no other step
   changes a counter: no counter is overwritten with a locally held value and
   none ever decreases. *)
C25_CountersOnlyIncrementedByOne ==
    [][/\ \A k \in DOMAIN CountersOf(store) :
             CountersOf(store')[k] \in {CountersOf(store)[k], CountersOf(store)[k] + 1}
       /\ \A b \in Buckets :
             store'.session_durations[b] \in
                 {store.session_durations[b], store.session_durations[b] + 1}
       /\ \A o \in InFlightOps :
             writeSucceeds(o) =>
                 \A k \in DOMAIN CountersOf(store) :
                     CountersOf(store')[k] =
                         CountersOf(store)[k] + (IF CounterOf(o) = k THEN 1 ELSE 0)]_vars

(* C25 witness: the page view of the construction, a tool view and a tool click
   have each incremented their counter. *)
C25_Witness ==
    /\ store.daily_pages = 1
    /\ store.tool_views = 1
    /\ store.tool_clicks = 1

----------------------------------------------------------------------------
(* Properties of the tracker's handlers *)

(* C26: no handler of the tracker waits for a remote write.  Whatever writes are
   outstanding, and even while none has completed, the timers that init set up
   are armed and fire when due, and an activity signal, a page view, a tool
   interaction and the unload signal are accepted and processed on arrival (as
   far as the bounds on events and operations allow). *)
C26_WritesNeverBlockTheCaller ==
    /\ heartbeatInterval # Absent
    /\ CanCall => ENABLED activitySignal
    /\ (CanCall /\ CanIssue) =>
           /\ ENABLED trackPageView
           /\ ENABLED trackToolInteraction
           /\ ENABLED endSession
    /\ now >= heartbeatInterval => ENABLED heartbeat
    /\ (activityTimeout # Absent /\ now >= activityTimeout) => ENABLED activityTimerFires

(* C26 witness: none of the writes issued since construction has completed or
   failed, and yet a second page view was counted, an activity signal was
   processed and its debounced write issued, and the heartbeat timer has fired. *)
C26_Witness ==
    /\ store = EmptyStore /\ failures = 0
    /\ BagIn(Op("startSession", 1, PageLoadTime, 1, FALSE), ops)
    /\ pageViews = 2
    /\ activityLog.signals = 1 /\ activityLog.writes = 1
    /\ hbLast = PageLoadTime + HeartbeatPeriod
    /\ InFlight = 5

----------------------------------------------------------------------------
(* Properties of the tracker's local state *)

(* C27 as claimed: the tracker's local state does not depend on the store or on
   the outcome of its writes: the completion of a write, successful or failed,
   changes no field of the tracker, so runs that differ only in write outcomes
   make the same local state transitions. *)
C27_LocalStateIndependentOfWrites ==
    [][\A o \in InFlightOps :
          (writeSucceeds(o) \/ writeFails(o)) =>
              UNCHANGED <<sessionStart, pageViews, lastActivity, activityTimeout,
                          heartbeatInterval, lifecycle>>]_vars

(* C27 as amended: no value of the store is read into the tracker.  The
   completion of a write, successful or failed, leaves the lifecycle, the
   page-view count, the session start and both timers as they are, and the write
   that continues the operation carries only values the tracker holds; the one
   field a completion changes is lastActivity, set from the local clock when the
   second write of trackToolInteraction succeeds. *)
C27_LifecycleIndependentOfWrites ==
    [][\A o \in InFlightOps :
          (writeSucceeds(o) \/ writeFails(o)) =>
              /\ UNCHANGED <<sessionStart, pageViews, activityTimeout, heartbeatInterval,
                             lifecycle, pvBeforeEnd, endTime>>
              /\ lastActivity' \in {lastActivity, now}
              /\ lastActivity' # lastActivity =>
                     (o.op = "tool" /\ o.step = 2 /\ store' # store)
              /\ \A p \in BagToSet(ops') \ BagToSet(ops) :
                     /\ p.op = o.op /\ p.step = o.step + 1
                     /\ p.ts \in {o.ts, lastActivity, now}
                     /\ p.n \in {o.n, pageViews}]_vars

(* C27 witness: startSession's writes failed, so the store has no active session,
   no daily user and no presence flag; the tracker nevertheless ran its session
   to the end and the end was stored. *)
C27_Witness ==
    /\ lifecycle = "Ended"
    /\ failures = 1
    /\ store.session.status = "ended"
    /\ ~store.daily_users /\ ~store.active_sessions
    /\ \A o \in InFlightOps : o.op # "startSession"
    /\ pageViews = 1

----------------------------------------------------------------------------
(* Properties of the session id *)

(* C28: the session id is generated once per browser and then reused: once an
   id is persisted it is never replaced, every tracker of the browser uses the
   persisted id, and a tracker's id, once assigned, never changes. *)
C28_SessionIdGeneratedOncePerBrowser ==
    [][/\ localStorage # Absent => localStorage' = localStorage
       /\ \A t \in Tabs :
             /\ trackers[t].sessionId # Absent => trackers'[t].sessionId = trackers[t].sessionId
             /\ trackers'[t].sessionId # Absent => trackers'[t].sessionId = localStorage']_vars

----------------------------------------------------------------------------
(* Properties of the admin guard *)

(* user u is signed in and admins/{u} exists with a required role and status
   'active' *)
PassesRoleCheck(u) == u \in Uids /\ checkAdminRole(adminDocs[u], TRUE)

(* C29: under every ordering of auth-state changes and pending role checks the
   guard grants access only for the user who is signed in at that moment and
   whose admins record exists with role 'admin' or 'superadmin' and status
   'active'; a callback that finds no user, or whose role check does not pass
   (missing record, other role, inactive status, failed lookup), grants nothing
   and redirects to the login page. *)
C29_AccessOnlyForSignedInActiveAdmin ==
    [][/\ page'.grants # page.grants =>
              /\ page'.grantedTo = authUser'
              /\ PassesRoleCheck(authUser')
       /\ \A g \in GuardIds :
              (onAuthStateChanged(g) /\ authUser = "none") =>
                  (page'.redirecting /\ page'.grants = page.grants)
       /\ \A c \in BagToSet(roleChecks), lookupOk \in BOOLEAN :
              (roleCheckReturns(c, lookupOk) /\ ~(lookupOk /\ PassesRoleCheck(c.uid))) =>
                  (page'.redirecting /\ page'.grants = page.grants)]_vars

(* C30: AuthGuard.checkAccess() resolves to true when the user signed in at that
   moment passes the admin-role check and to false otherwise. *)
C30_CheckAccessTellsWhetherAdmin ==
    [][(accessAnswer'.resolved /\ ~accessAnswer.resolved) =>
           accessAnswer'.value = PassesRoleCheck(authUser)]_vars

----------------------------------------------------------------------------
(* The viewer page under its scheduling: the code after the await of loadTool
   is synchronous, so the parse of the written document and the rest of
   loadTool run to completion once the read has completed. *)
SpecViewerLive ==
    InitViewerPage /\ [][NextViewerPage]_vars /\ WF_vars(parseStep) /\ WF_vars(finishLoad)

(* C31: the loading state is displayed while the tool definition is being
   resolved, and whenever the read completes, with a definition or with a
   failure, loadTool finishes, and when it has finished the loading state is
   not displayed. *)
C31_LoadingEndsOnEveryPath ==
    /\ [](vpc = "awaitDoc" /\ hasContainer => content = "loading")
    /\ [](vpc = "done" => content # "loading")
    /\ (resolved # "pending") ~> (vpc = "done")

C31_Witness ==
    /\ vpc = "done"
    /\ resolved = "failed"
    /\ errorMessage = StoreErrorMessage
    /\ hasContainer
    /\ content = "iframe"
    /\ iframeDisplay = "block"

----------------------------------------------------------------------------
(* Properties of the debounce timer *)

(* the last_activity writes in b that carry the timestamp ts *)
ActivityWritesOf(b, ts) == CopiesIn(Op("activity", 1, ts, 0, Ended), b)

(* C32 as claimed: every input signal clears the pending debounce timer and
   sets a new one, at most one debounce timer is pending at any time, and the
   write issued when the timer fires carries the time of the latest input
   signal. *)
C32_DebouncedWriteCarriesLatestSignal ==
    [][/\ Cardinality(activityLog'.timers) <= 1
       /\ activityLog'.signals # activityLog.signals =>
             activityLog'.timers = {[id |-> activityLog'.signals, due |-> now + DebounceDelay]}
       /\ activityLog'.writes # activityLog.writes =>
             ActivityWritesOf(ops', activityLog.signal)
                 = ActivityWritesOf(ops, activityLog.signal) + 1]_vars

(* C32 as amended: every input signal clears the pending debounce timer and
   sets a new one, due one second later; at most one debounce timer is pending
   at any time, and it is the one this.activityTimeout names; the write issued
   when the timer fires carries this.lastActivity as it is at that moment: the
   time of the latest input signal, or the later time at which a visibility
   change to visible or a tool interaction set lastActivity. *)
C32_DebouncedWriteCarriesLatestActivity ==
    [][/\ Cardinality(activityLog'.timers) <= 1
       /\ \A t \in activityLog'.timers :
             t.id = activityLog'.signals /\ t.due = activityTimeout'
       /\ activityLog'.signals # activityLog.signals =>
             activityLog'.timers = {[id |-> activityLog'.signals, due |-> now + DebounceDelay]}
       /\ activityLog'.writes # activityLog.writes =>
             /\ activityLog'.timers = {}
             /\ ActivityWritesOf(ops', lastActivity) = ActivityWritesOf(ops, lastActivity) + 1
             /\ lastActivity = activityLog.signal
                   \/ (lastActivity = activityLog.direct /\ lastActivity > activityLog.signal)]_vars

(* C32 witness: the second of two input signals replaced the timer of the
   first, half a second old; the one timer has fired and its write, which
   carries the time of the second signal, is under way. *)
C32_Witness ==
    /\ activityLog.signals = 2
    /\ activityLog.signal = PageLoadTime + TickStep
    /\ activityLog.timers = {}
    /\ activityLog.writes = 1
    /\ lastActivity = activityLog.signal
    /\ ActivityWritesOf(ops, activityLog.signal) = 1

----------------------------------------------------------------------------
(* Properties of the iframe's error events *)

(* C33: an error event raised inside the isolation context is logged only: it
   leaves the content of the viewer (loading state, iframe or error panel), the
   error message, the display of the iframe and the progress of loadTool as
   they are. *)
C33_ToolErrorsAreLoggedOnly ==
    [][readiness'.errors # readiness.errors =>
          /\ readiness'.logged \in {readiness.logged, readiness.logged + 1}
          /\ readiness'.logged = readiness.logged + 1 <=> readiness.listening
          /\ <<content, errorMessage, iframeDisplay, vpc, resolved>>'
                = <<content, errorMessage, iframeDisplay, vpc, resolved>>
          /\ <<frameDoc, parsePos, viewReports, ops>>' = <<frameDoc, parsePos, viewReports, ops>>]_vars

(* C33 witness: the tool is displayed, two of its errors were logged by the
   host's listener, and no error message was ever set. *)
C33_Witness ==
    /\ vpc = "done" /\ resolved = "ok"
    /\ readiness.listening
    /\ readiness.logged = MaxToolErrors
    /\ content = "iframe"
    /\ errorMessage = ""

----------------------------------------------------------------------------
(* Properties of the view accounting *)

(* the updates of tool_views and daily_views awaiting their write *)
ViewWrites(b) == SumOver([o \in BagToSet(b) |-> IF o.op = "toolView" THEN CopiesIn(o, b) ELSE 0],
                         BagToSet(b))

(* C34: the update of tool_views/{toolId} and daily_views/{date}/{toolId} is
   issued at most once per viewer load, and only once the tool definition was
   resolved and the composed document written into the iframe: never when the
   resolution failed or the write of the document failed; and the store's view
   counters change only by the write of an update so issued. *)
C34_ViewCountedOnlyForComposedTool ==
    [][/\ viewReports' <= 1
       /\ ViewWrites(ops') <= viewReports'
       /\ (viewReports' # viewReports \/ ViewWrites(ops') > ViewWrites(ops)) =>
             /\ viewReports = 0 /\ viewReports' = 1
             /\ ViewWrites(ops) = 0 /\ ViewWrites(ops') = 1
             /\ resolved = "ok" /\ ResolutionError(toolDoc) = ""
             /\ errorMessage = ""
             /\ frameDoc = ComposeDocument(toolDoc) /\ parsePos = Len(frameDoc)
       /\ (resolved' = "failed" \/ errorMessage' # "") =>
             viewReports' = 0 /\ ViewWrites(ops') = 0
       /\ <<store.tool_views, store.daily_views>>' # <<store.tool_views, store.daily_views>> =>
             ViewWrites(ops) = 1 /\ ViewWrites(ops') = 0]_vars

(* C34 witness: the read delivered an eligible tool definition, the iframe
   exposed no document to write to, and the load has ended with no view update
   issued and the store's view counters as they were. *)
C34_Witness ==
    /\ vpc = "done"
    /\ resolved = "ok"
    /\ errorMessage = NoDocumentMessage
    /\ frameDoc = <<>>
    /\ viewReports = 0
    /\ ViewWrites(ops) = 0
    /\ store.tool_views = 0
    /\ store.session.status = "active"

----------------------------------------------------------------------------
(* Properties of the order of an operation's writes *)

(* the operations of the given name awaiting the write of step k *)
AtStep(b, name, k) ==
    SumOver([o \in BagToSet(b) |-> IF o.op = name /\ o.step = k THEN CopiesIn(o, b) ELSE 0],
            BagToSet(b))

(* C35: the writes of startSession, trackToolInteraction and endSession are
   issued in sequence, each only when the one before it has succeeded: a second
   or third write is issued only in the step in which the preceding write of
   the same operation is applied to the store, never after a failure; a failed
   write ends its operation.  So the presence flag is stored only with the
   session record and the visitor marker stored before it. *)
C35_WritesOfAnOperationInSequence ==
    [][/\ \A name \in {"startSession", "tool", "end"}, k \in 2..3 :
             AtStep(ops', name, k) > AtStep(ops, name, k) =>
                 /\ AtStep(ops', name, k) = AtStep(ops, name, k) + 1
                 /\ failures' = failures
                 /\ \E o \in InFlightOps :
                       /\ o.op = name /\ o.step = k - 1
                       /\ CopiesIn(o, ops') = CopiesIn(o, ops) - 1
                       /\ store' = ApplyWrite(o, store)
       /\ failures' # failures =>
             /\ BagCardinality(ops') = BagCardinality(ops) - 1
             /\ store' = store
       /\ store'.active_sessions /\ ~store.active_sessions =>
             store.session.status # "none" /\ store.daily_users]_vars

(* C35 witness: a write has failed and its operation has ended with it, no
   tool interaction is stored or under way, and endSession, whose update of the
   session record and removal of the presence flag are stored, awaits its
   third write. *)
C35_Witness ==
    /\ failures = 1
    /\ store.session.status = "ended"
    /\ ~store.active_sessions
    /\ AtStep(ops, "end", 3) = 1
    /\ store.tool_interactions = 0
    /\ AtStep(ops, "tool", 1) + AtStep(ops, "tool", 2) + AtStep(ops, "tool", 3) = 0
    /\ calls = MaxCalls
    /\ pageViews = 1

(* C36: the view accounting is all-or-nothing: whatever view reports of
   whatever viewers have succeeded or failed, tool_views/{toolId}/total equals
   the sum over the dates of daily_views/{date}/{toolId}. *)
C36_ViewTotalIsSumOfDailyViews ==
    store.tool_views = SumOver(store.daily_views, Dates)

(* C36 witness: with view reports of this page and of other viewers stored for
   both dates, one report has failed, one is still under way, and this page's
   own report has been issued. *)
C36_Witness ==
    /\ \A d \in Dates : store.daily_views[d] >= 2
    /\ failures = 1
    /\ viewReports = 1
    /\ ViewWrites(ops) >= 1
    /\ store.tool_views = MaxViews - 1

----------------------------------------------------------------------------
(* Properties of the tool interaction counter *)

(* C37: for a tool id and action, the counter tool_stats/{toolId}/{action}
   never exceeds the number of tool_interactions entries of that tool id and
   action, however the writes of concurrent trackToolInteraction calls
   interleave and whichever of them fail: every interaction whose counter write
   is under way or stored has its log entry stored. *)
C37_CounterNeverAheadOfInteractionLog ==
    /\ store.tool_stats <= store.tool_interactions
    /\ store.tool_stats + AtStep(ops, "tool", 2) <= store.tool_interactions

(* C37 witness: two interactions have both stored their log entry;
   the counter write of one is stored and that of the other has failed, so the
   counter stays one behind the log. *)
C37_Witness ==
    /\ store.tool_interactions = 2
    /\ store.tool_stats = 1
    /\ failures = 1
    /\ AtStep(ops, "tool", 1) + AtStep(ops, "tool", 2) = 0
    /\ AtStep(ops, "tool", 3) = 1

----------------------------------------------------------------------------
(* Properties of the admin-eligibility checks *)

(* C38: FirebaseUtils.checkAdminAccess, AuthGuard.checkAdminRole and
   GoogleAuth.checkAdminAccess give the same verdict for every admins/{uid}
   document: any two of them that were called for the same uid and could read
   the document have resolved to the same value. *)
C38_EligibilityChecksAgree ==
    \A c, d \in Checks :
        (/\ verdicts[c].called /\ verdicts[d].called
         /\ verdicts[c].uid = verdicts[d].uid
         /\ verdicts[c].lookupOk /\ verdicts[d].lookupOk)
            => verdicts[c].value = verdicts[d].value

====
